---- MODULE Spec2Model ----
(***************************************************************************)
(* Dynamic-programming solvers of src/DP/Algorithms (policy_evaluation,    *)
(* policy_iteration, value_iteration) run against the environments of      *)
(* src/DP/Env (KnapsackEnv, InventoryEnv).                                 *)
(*                                                                         *)
(* Numbers.  Rewards and values are Python floats.  Every instance drawn   *)
(* here has integer rewards and a discount gamma in {0, 1/2, 1}, so every  *)
(* value the solvers compute is a multiple of 1/Scale and float arithmetic *)
(* is exact: a value x is held as the integer x * Scale, gamma as the      *)
(* number of halves, theta in the same 1/Scale units.                      *)
(***************************************************************************)
EXTENDS Integers, Sequences, FiniteSets, TLC

\* ------------------------------------------------------------------ bounds
MaxItems == 2        \* longest horizon n of the enumerated instances
MaxCapacity == 2     \* largest capacity of the enumerated instances
MaxWeight == 2       \* largest item weight (KnapsackEnv)
MaxValue == 2        \* largest item value (KnapsackEnv)
MaxCost == 2         \* largest unit production cost (InventoryEnv)
MaxHolding == 1      \* largest unit holding cost (InventoryEnv)
MaxUnits == 1        \* largest capacity of the instances of the runs with any theta
MaxFree == 6         \* instances with more non-terminal states than this get
                     \* only the uniform initial policies
MaxRounds == 3       \* the history counter of evaluations stops counting here
MaxPeriods == 3      \* longest period list M given to heuristica_eoq
MaxDemand == 2       \* largest demand d[t] given to heuristica_eoq
MaxStock == 2        \* largest initial inventory I_0 given to heuristica_eoq
MaxLot == 3          \* largest lot size EOQ given to heuristica_eoq
MaxNodes == 4        \* largest node list N given to identificar_subtours

Scale == 2 ^ MaxItems

\* ------------------------------------------------------- program constants
skip == 0            \* the action "skip" of KnapsackEnv
take == 1            \* the action "take" of KnapsackEnv
None == -1           \* Python's None as an action (best_a before any candidate)
NegInf == -1000000   \* -float('inf'): below every value a run can compute

VARIABLES
    env,            \* the environment object handed to the solvers
    gamma,          \* discount, in halves: 0, 1, 2  (0, 1/2, 1)
    theta,          \* convergence threshold, in 1/Scale units
    pc,             \* where the running solver is
    idx,            \* position of the `for s in env.state_space()` loop
    V,              \* the value function of the running solver
    delta,          \* max change seen in the current sweep
    policy,         \* the policy mapping (the caller's object, for policy_iteration)
    policy_stable,  \* flag of the improvement pass of policy_iteration
    err,            \* the exception that ended the last solver call, or "none"
    viResult,       \* what value_iteration returned or raised
    Vprev,          \* history: V of the previous policy_evaluation of this run
    hist,           \* history: facts about the run, see below
    simCalls,       \* history: the sim_step(s, a) calls issued by the last step
    start_inventory,\* self.start_inventory of an InventoryEnv
    self_i,         \* the live episode field self.i (KnapsackEnv) / self.t (InventoryEnv)
    self_c,         \* the live episode field self.c (KnapsackEnv) / self.S (InventoryEnv)
    total_reward,   \* the live field self.total_reward, in 1/Scale units
    call,           \* the last call of a method of env by a caller, and its outcome
    taken,          \* history: the items taken by step() since the last reset()
    report,         \* the locals of a running call of report_from_policy
    lot,            \* the arguments and locals of a call of heuristica_eoq
    sub             \* the arguments and locals of a call of identificar_subtours

\* the environment object's live fields and what its callers see
envVars == <<start_inventory, self_i, self_c, total_reward, call, taken, report>>

\* the locals of the running solver
solverVars == <<gamma, theta, pc, idx, V, delta, policy, policy_stable, err,
                viResult, Vprev, hist, simCalls>>

\* the calls of the lot-sizing and routing helpers
plannerVars == <<lot, sub>>

vars == <<env, gamma, theta, pc, idx, V, delta, policy, policy_stable, err,
          viResult, Vprev, hist, simCalls, start_inventory, self_i, self_c,
          total_reward, call, taken, report, lot, sub>>

\* ------------------------------------------------------------ environments
Range(f) == {f[x] : x \in DOMAIN f}

RECURSIVE SumSeq(_)
SumSeq(q) == IF q = <<>> THEN 0 ELSE Head(q) + SumSeq(Tail(q))

Max(a, b) == IF a >= b THEN a ELSE b
Abs(x) == IF x >= 0 THEN x ELSE -x

\* self.n
Horizon(e) == IF e.kind = "Inventory" THEN Len(e.demand) ELSE Len(e.weights)

\* self._states: [(i, c) for i in range(n + 1) for c in range(capacity + 1)]
state_space(e) ==
    [k \in 1..((Horizon(e) + 1) * (e.capacity + 1)) |->
        <<(k - 1) \div (e.capacity + 1), (k - 1) % (e.capacity + 1)>>]

StateSet(e) == Range(state_space(e))

\* is_terminal(state): state[0] >= self.n
is_terminal(e, s) == s[1] >= Horizon(e)

NonTerminal(e) == {s \in StateSet(e) : ~is_terminal(e, s)}

\* mutant of KnapsackActions: acts starts empty instead of ["skip"]
KnapsackActionsFromEmpty(e, s) ==
    IF s[1] >= Horizon(e) THEN <<>>
    ELSE IF e.weights[s[1] + 1] <= s[2] THEN <<take>> ELSE <<>>

\* mutant of KnapsackActions: "take" is offered whether the item fits or not
KnapsackActionsAlwaysTake(e, s) ==
    IF s[1] >= Horizon(e) THEN <<>> ELSE <<skip, take>>

\* mutant of KnapsackActions: "take" is listed before "skip"
KnapsackActionsTakeFirst(e, s) ==
    IF s[1] >= Horizon(e) THEN <<>>
    ELSE IF e.weights[s[1] + 1] <= s[2] THEN <<take, skip>> ELSE <<skip>>

\* KnapsackEnv.actions
KnapsackActions(e, s) ==
    IF s[1] >= Horizon(e) THEN <<>>
    ELSE IF e.weights[s[1] + 1] <= s[2] THEN <<skip, take>> ELSE <<skip>>

\* mutant of InventoryMinOrder: min_order = 0, a shortage is allowed
InventoryMinOrderZero(e, s) == 0

\* InventoryEnv.actions: the order range, or a ValueError when it is empty
InventoryMinOrder(e, s) == Max(0, e.demand[s[1] + 1] - s[2])
InventoryMaxOrder(e, s) == e.capacity - s[2]

\* mutant of InventoryInfeasible: the check `min_order > max_order` is left
\* out, an infeasible period yields the empty range
InventoryNeverInfeasible(e, s) == FALSE

InventoryInfeasible(e, s) ==
    /\ s[1] < Horizon(e)
    /\ InventoryMinOrder(e, s) > InventoryMaxOrder(e, s)

InventoryActions(e, s) ==
    IF s[1] >= Horizon(e) THEN <<>>
    ELSE [k \in 1..(InventoryMaxOrder(e, s) - InventoryMinOrder(e, s) + 1) |->
            InventoryMinOrder(e, s) + k - 1]

\* An environment that breaks the interface contract: actions(s) is empty at
\* the non-terminal states e.dead.  Elsewhere it has the two actions and the
\* unvalidated sim_step of a KnapsackEnv whose items all weigh nothing.
StubActions(e, s) ==
    IF s[1] >= Horizon(e) \/ s \in e.dead THEN <<>> ELSE <<skip, take>>

\* env.actions(s) raises
ActionsRaises(e, s) == e.kind = "Inventory" /\ InventoryInfeasible(e, s)

\* env.actions(s), when it returns
actions(e, s) ==
    CASE e.kind = "Knapsack" -> KnapsackActions(e, s)
      [] e.kind = "Inventory" -> InventoryActions(e, s)
      [] OTHER -> StubActions(e, s)

\* mutant of KnapsackSimStep: "take" forgets `c -= self.weights[i]`
KnapsackSimStepKeepsCapacity(e, s, a) ==
    IF a = take /\ s[1] >= Horizon(e)
    THEN [raises |-> "IndexError", next |-> s, reward |-> 0]
    ELSE IF a = take
    THEN [raises |-> "none", next |-> <<s[1] + 1, s[2]>>,
          reward |-> e.values[s[1] + 1] * Scale]
    ELSE [raises |-> "none", next |-> <<s[1] + 1, s[2]>>, reward |-> 0]

\* KnapsackEnv.sim_step: no legality check; self.values[i] is an IndexError
\* when "take" is simulated at i >= n
KnapsackSimStep(e, s, a) ==
    IF a = take /\ s[1] >= Horizon(e)
    THEN [raises |-> "IndexError", next |-> s, reward |-> 0]
    ELSE IF a = take
    THEN [raises |-> "none", next |-> <<s[1] + 1, s[2] - e.weights[s[1] + 1]>>,
          reward |-> e.values[s[1] + 1] * Scale]
    ELSE [raises |-> "none", next |-> <<s[1] + 1, s[2]>>, reward |-> 0]

\* mutant of InventorySimStep: the period is not advanced, next = (t, I_t)
InventorySimStepSamePeriod(e, s, x) ==
    IF InventoryInfeasible(e, s)
    THEN [raises |-> "Infeasible", next |-> s, reward |-> 0]
    ELSE IF x \notin Range(InventoryActions(e, s))
    THEN [raises |-> "IllegalAction", next |-> s, reward |-> 0]
    ELSE LET I_t == s[2] + x - e.demand[s[1] + 1]
             cost == e.production_costs[s[1] + 1] * x
                     + e.holding_costs[s[1] + 1] * I_t
         IN [raises |-> "none", next |-> <<s[1], I_t>>,
             reward |-> (-cost) * Scale]

\* InventoryEnv.sim_step: the ValueError of actions(state), or its own
\* ValueError unless x is in actions(state)
InventorySimStep(e, s, x) ==
    IF InventoryInfeasible(e, s)
    THEN [raises |-> "Infeasible", next |-> s, reward |-> 0]
    ELSE IF x \notin Range(InventoryActions(e, s))
    THEN [raises |-> "IllegalAction", next |-> s, reward |-> 0]
    ELSE LET I_t == s[2] + x - e.demand[s[1] + 1]
             cost == e.production_costs[s[1] + 1] * x
                     + e.holding_costs[s[1] + 1] * I_t
         IN [raises |-> "none", next |-> <<s[1] + 1, I_t>>,
             reward |-> (-cost) * Scale]

sim_step(e, s, a) ==
    IF e.kind = "Inventory" THEN InventorySimStep(e, s, a)
    ELSE KnapsackSimStep(e, s, a)

\* ------------------------------------------------------------ the solvers
\* mutant of Disc: gamma is left out, r + V[next_s]
DiscWithoutGamma(g, v) == v

\* gamma * v, gamma held in halves
Disc(g, v) == (g * v) \div 2

\* mutant of ZeroV: V(s) <- 1.0
OneV(e) == [s \in StateSet(e) |-> Scale]

\* V(s) <- 0 for every s of env.state_space()
ZeroV(e) == [s \in StateSet(e) |-> 0]

NoPolicy == [s \in {} |-> None]

\* policy[s] = a on a Python dict
Put(f, k, v) == [x \in (DOMAIN f) \cup {k} |-> IF x = k THEN v ELSE f[x]]

\* r + gamma * V[next_s] for a call sim_step(s, a) that returns
Q(e, g, W, s, a) == sim_step(e, s, a).reward + Disc(g, W[sim_step(e, s, a).next])

\* the exception of `sim_step(s, a)` then `V[next_s]`, or "none"
StepErr(e, W, s, a) ==
    IF sim_step(e, s, a).raises # "none" THEN sim_step(e, s, a).raises
    ELSE IF sim_step(e, s, a).next \notin DOMAIN W THEN "KeyError"
    ELSE "none"

\* the first exception met while the candidates acts are tried in order
RECURSIVE LoopErr(_, _, _, _)
LoopErr(e, W, s, acts) ==
    IF acts = <<>> THEN "none"
    ELSE IF StepErr(e, W, s, Head(acts)) # "none" THEN StepErr(e, W, s, Head(acts))
    ELSE LoopErr(e, W, s, Tail(acts))

\* the sim_step calls issued while the candidates are tried: up to the first
\* one that fails
RECURSIVE LoopCalls(_, _, _, _, _)
LoopCalls(who, e, W, s, acts) ==
    IF acts = <<>> THEN {}
    ELSE IF StepErr(e, W, s, Head(acts)) # "none" THEN {<<who, s, Head(acts)>>}
    ELSE {<<who, s, Head(acts)>>} \cup LoopCalls(who, e, W, s, Tail(acts))

\* mutant of MaxQ: min(...) where the code has max(...)
MaxQAsMin(e, g, W, s, acts) ==
    CHOOSE q \in {Q(e, g, W, s, acts[k]) : k \in 1..Len(acts)} :
        \A k \in 1..Len(acts) : Q(e, g, W, s, acts[k]) >= q

\* max(... for a in env.actions(s)) of value_iteration: ValueError on no candidate
MaxQ(e, g, W, s, acts) ==
    CHOOSE q \in {Q(e, g, W, s, acts[k]) : k \in 1..Len(acts)} :
        \A k \in 1..Len(acts) : Q(e, g, W, s, acts[k]) <= q

\* mutant of Greedy: `best_q, best_a = q_sa, a` without the comparison
GreedyUnconditional(e, g, W, s, acts, best_q, best_a) ==
    IF acts = <<>> THEN best_a ELSE acts[Len(acts)]

\* mutant of Greedy: `if q_sa >= best_q`, a later equal candidate wins
RECURSIVE GreedyTieLast(_, _, _, _, _, _, _)
GreedyTieLast(e, g, W, s, acts, best_q, best_a) ==
    IF acts = <<>> THEN best_a
    ELSE IF Q(e, g, W, s, Head(acts)) >= best_q
         THEN GreedyTieLast(e, g, W, s, Tail(acts), Q(e, g, W, s, Head(acts)), Head(acts))
         ELSE GreedyTieLast(e, g, W, s, Tail(acts), best_q, best_a)

\* mutant of Greedy: best_q starts at 0.0 instead of -inf
RECURSIVE GreedyLoopFrom(_, _, _, _, _, _, _)
GreedyLoopFrom(e, g, W, s, acts, best_q, best_a) ==
    IF acts = <<>> THEN best_a
    ELSE IF Q(e, g, W, s, Head(acts)) > best_q
         THEN GreedyLoopFrom(e, g, W, s, Tail(acts), Q(e, g, W, s, Head(acts)), Head(acts))
         ELSE GreedyLoopFrom(e, g, W, s, Tail(acts), best_q, best_a)
GreedyFromZero(e, g, W, s, acts, best_q, best_a) ==
    GreedyLoopFrom(e, g, W, s, acts, 0, best_a)

\* mutant of Greedy: `if q_sa > best_q: best_q = q_sa`, best_a is not updated
GreedyForgetsAction(e, g, W, s, acts, best_q, best_a) == best_a

\* the argmax loop shared by policy_iteration and value_iteration:
\*   if q_sa > best_q: best_q, best_a = q_sa, a
RECURSIVE Greedy(_, _, _, _, _, _, _)
Greedy(e, g, W, s, acts, best_q, best_a) ==
    IF acts = <<>> THEN best_a
    ELSE IF Q(e, g, W, s, Head(acts)) > best_q
         THEN Greedy(e, g, W, s, Tail(acts), Q(e, g, W, s, Head(acts)), Head(acts))
         ELSE Greedy(e, g, W, s, Tail(acts), best_q, best_a)

\* what the Bellman-optimality backup of value_iteration raises at s
BackupErr(e, W, s) ==
    IF ActionsRaises(e, s) THEN "Infeasible"
    ELSE IF LoopErr(e, W, s, actions(e, s)) # "none" THEN LoopErr(e, W, s, actions(e, s))
    ELSE IF actions(e, s) = <<>> THEN "EmptySequence"
    ELSE "none"

\* what the argmax loop raises at s (an empty actions(s) raises nothing)
GreedyErr(e, W, s) ==
    IF ActionsRaises(e, s) THEN "Infeasible"
    ELSE LoopErr(e, W, s, actions(e, s))

\* mutant of Lookup: policy.get(s), None on a missing key
LookupGet(p, s) == [raises |-> FALSE, a |-> IF s \in DOMAIN p THEN p[s] ELSE None]

\* policy[s] on a Python dict: KeyError on a missing key
Lookup(p, s) ==
    IF s \in DOMAIN p THEN [raises |-> FALSE, a |-> p[s]]
    ELSE [raises |-> TRUE, a |-> None]

\* what the fixed-policy backup of policy_evaluation raises at s
EvalErr(e, W, p, s) ==
    IF Lookup(p, s).raises THEN "KeyError"
    ELSE StepErr(e, W, s, Lookup(p, s).a)

\* mutant of NewDelta: delta = abs(v - new_v), the change of the last state only
NewDeltaLast(d, v, new_v) == Abs(v - new_v)

\* mutant of NewDelta: delta = min(delta, abs(v - new_v))
NewDeltaSmallest(d, v, new_v) == IF Abs(v - new_v) < d THEN Abs(v - new_v) ELSE d

\* delta = max(delta, abs(v - new_v))
NewDelta(d, v, new_v) == Max(d, Abs(v - new_v))

\* ------------------------------------------------------------------ inputs
Env(kind, weights, values, demand, production_costs, holding_costs, capacity, dead) ==
    [kind |-> kind, weights |-> weights, values |-> values, demand |-> demand,
     production_costs |-> production_costs, holding_costs |-> holding_costs,
     capacity |-> capacity, dead |-> dead]

\* KnapsackEnv(weights, values, capacity)
KnapsackEnv(weights, values, capacity) ==
    Env("Knapsack", weights, values, <<>>, <<>>, <<>>, capacity, {})

\* InventoryEnv(demand, production_costs, holding_costs, capacity)
InventoryEnv(demand, production_costs, holding_costs, capacity) ==
    Env("Inventory", <<>>, <<>>, demand, production_costs, holding_costs, capacity, {})

\* the 3-item knapsack and the 2-period inventory plan of the test scenarios
ScenarioKnapsack == KnapsackEnv(<<2, 3, 4>>, <<3, 4, 5>>, 5)
ScenarioInventory == InventoryEnv(<<1, 1>>, <<10, 10>>, <<0, 0>>, 2)

\* three items of rising value competing for one unit of capacity
RisingKnapsack == KnapsackEnv(<<1, 1, 1>>, <<1, 2, 3>>, 1)

KnapsackInstances ==
    {KnapsackEnv(w, v, c) :
        <<w, v>> \in UNION {[1..n -> 0..MaxWeight] \X [1..n -> 1..MaxValue] : n \in 1..MaxItems},
        c \in 0..MaxCapacity}

\* demands up to capacity + 1: an instance with demand[t] > capacity is infeasible
InventoryInstances ==
    {InventoryEnv(d, pc_, [t \in DOMAIN d |-> h], c) :
        <<d, pc_>> \in UNION {[1..n -> 0..MaxCapacity] \X [1..n -> 1..MaxCost] : n \in 1..MaxItems},
        h \in 0..MaxHolding,
        c \in 1..MaxCapacity}

StubInstances ==
    {Env("Stub", [k \in 1..n |-> 0], [k \in 1..n |-> 1], <<>>, <<>>, <<>>, 1, {d}) :
        <<n, d>> \in {x \in (1..MaxItems) \X ((0..(MaxItems - 1)) \X (0..1)) : x[2][1] < x[1]}}

Instances ==
    KnapsackInstances \cup InventoryInstances \cup StubInstances
    \cup {ScenarioKnapsack, ScenarioInventory, RisingKnapsack}

GammaSet == {0, 1, 2}
ThetaSet == {1, 2 * Scale, 4 * Scale}

\* a is a legal action at s
Legal(e, s, a) == ~ActionsRaises(e, s) /\ a \in Range(actions(e, s))

\* e honours the interface: actions(s) returns at least one action at every
\* non-terminal state
WellFormed(e) ==
    \A s \in NonTerminal(e) : ~ActionsRaises(e, s) /\ actions(e, s) # <<>>

\* a total policy of legal actions
LegalPolicy(e, p) ==
    /\ DOMAIN p = NonTerminal(e)
    /\ \A s \in NonTerminal(e) : Legal(e, s, p[s])

\* what a caller may put at s: a legal action where there is one
Choices(e, s) ==
    IF ActionsRaises(e, s) THEN {InventoryMinOrder(e, s)}
    ELSE IF actions(e, s) = <<>> THEN {skip, None}
    ELSE Range(actions(e, s))

\* the first / the last candidate everywhere
FirstPolicy(e) ==
    [s \in NonTerminal(e) |->
        IF ActionsRaises(e, s) \/ actions(e, s) = <<>> THEN skip ELSE actions(e, s)[1]]
LastPolicy(e) ==
    [s \in NonTerminal(e) |->
        IF ActionsRaises(e, s) \/ actions(e, s) = <<>> THEN skip
        ELSE actions(e, s)[Len(actions(e, s))]]

\* an action the environment does not list at s
IllegalAt(e, s) == IF e.kind = "Inventory" THEN e.capacity + 1 ELSE take

\* a key of the caller's dict that is no non-terminal state: the first terminal
\* state
OtherKey(e) == <<Horizon(e), 0>>

\* the initial policies handed to policy_iteration: every total policy of
\* candidates, and the first- and last-candidate policies with one entry
\* missing, illegal, or added under another key
InitialPolicies(e) ==
    (IF Cardinality(NonTerminal(e)) <= MaxFree
     THEN {p \in [NonTerminal(e) -> UNION {Choices(e, s) : s \in NonTerminal(e)}] :
             \A s \in NonTerminal(e) : p[s] \in Choices(e, s)}
     ELSE {FirstPolicy(e), LastPolicy(e)})
    \cup {[s \in NonTerminal(e) \ {m} |-> FirstPolicy(e)[s]] : m \in NonTerminal(e)}
    \cup {[FirstPolicy(e) EXCEPT ![m] = IllegalAt(e, m)] :
            m \in {s \in NonTerminal(e) : ~Legal(e, s, IllegalAt(e, s))}}
    \cup {Put(FirstPolicy(e), OtherKey(e), take), Put(LastPolicy(e), OtherKey(e), take)}

NoResult == [status |-> "running", err |-> "none", policy |-> NoPolicy,
             V |-> NoPolicy, delta |-> 0]
NoHist == [p0 |-> NoPolicy, round |-> 0, evalOf |-> NoPolicy, exact |-> TRUE]

\* heuristica_eoq and identificar_subtours have not been called
NoLot == [pc |-> "off"]
NoSub == [pc |-> "off"]
NotPlanning == lot = NoLot /\ sub = NoSub

\* no method of env has been called yet
NoCall == [op |-> "none", s |-> <<None, None>>, a |-> None, raises |-> "none",
           next |-> <<None, None>>, reward |-> 0, done |-> FALSE, acts |-> <<>>,
           policy |-> NoPolicy, valor_total |-> 0, objetos_tomados |-> <<>>,
           peso_total |-> 0]

\* report_from_policy is not running
NoReport == [pc |-> "off", policy |-> NoPolicy, state |-> <<None, None>>,
             objetos_tomados |-> <<>>, peso_total |-> 0, valor_total |-> 0]

\* the environment object as its constructor leaves it
Constructed ==
    /\ self_i = None
    /\ self_c = None
    /\ total_reward = None
    /\ call = NoCall
    /\ taken = {}
    /\ report = NoReport

Init ==
    /\ env \in Instances
    /\ start_inventory = 0
    /\ Constructed
    /\ NotPlanning
    /\ gamma \in GammaSet
    /\ theta \in ThetaSet
    /\ pc = "vi_sweep"
    /\ idx = 1
    /\ V = ZeroV(env)
    /\ delta = 0
    /\ policy = NoPolicy
    /\ policy_stable = TRUE
    /\ err = "none"
    /\ viResult = NoResult
    /\ Vprev = NoPolicy
    /\ hist = NoHist
    /\ simCalls = {}

\* the state visited by the running `for s in env.state_space()` loop
Cur == state_space(env)[idx]
InLoop == idx <= Len(state_space(env))

\* ---------------------------------------------------------- value_iteration
\* value_iteration raises: nothing is returned
VIRaise(e_) ==
    /\ pc' = "idle"
    /\ err' = e_
    /\ viResult' = [NoResult EXCEPT !.status = "raised", !.err = e_]
    /\ V' = NoPolicy
    /\ idx' = 1
    /\ delta' = 0
    /\ policy' = NoPolicy
    /\ UNCHANGED <<plannerVars, envVars, env, gamma, theta, policy_stable, Vprev, hist>>

\* one pass of the body of the sweep loop of value_iteration
VISweepStep ==
    /\ pc = "vi_sweep"
    /\ InLoop
    /\ IF is_terminal(env, Cur)
       THEN /\ idx' = idx + 1
            /\ simCalls' = {}
            /\ UNCHANGED <<plannerVars, envVars, env, gamma, theta, pc, V, delta, policy, policy_stable,
                           err, viResult, Vprev, hist>>
       ELSE /\ simCalls' = IF ActionsRaises(env, Cur) THEN {}
                           ELSE LoopCalls("value_iteration", env, V, Cur, actions(env, Cur))
            /\ IF BackupErr(env, V, Cur) # "none"
               THEN VIRaise(BackupErr(env, V, Cur))
               ELSE LET best_q == MaxQ(env, gamma, V, Cur, actions(env, Cur))
                    IN /\ V' = [V EXCEPT ![Cur] = best_q]
                       /\ delta' = NewDelta(delta, V[Cur], best_q)
                       /\ idx' = idx + 1
                       /\ UNCHANGED <<plannerVars, envVars, env, gamma, theta, pc, policy, policy_stable,
                                      err, viResult, Vprev, hist>>

\* mutant of VISweepEnd: the stop test is `delta < 2 * theta`
VISweepEndTwiceTheta ==
    /\ pc = "vi_sweep"
    /\ ~InLoop
    /\ idx' = 1
    /\ simCalls' = {}
    /\ IF delta < 2 * theta
       THEN /\ pc' = "vi_extract"
            /\ policy' = NoPolicy
            /\ UNCHANGED delta
       ELSE /\ delta' = 0
            /\ UNCHANGED <<pc, policy>>
    /\ UNCHANGED <<plannerVars, envVars, env, gamma, theta, V, policy_stable, err, viResult, Vprev, hist>>

\* the stop test after a sweep: `if delta < theta: break`
VISweepEnd ==
    /\ pc = "vi_sweep"
    /\ ~InLoop
    /\ idx' = 1
    /\ simCalls' = {}
    /\ IF delta < theta
       THEN /\ pc' = "vi_extract"
            /\ policy' = NoPolicy
            /\ UNCHANGED delta
       ELSE /\ delta' = 0
            /\ UNCHANGED <<pc, policy>>
    /\ UNCHANGED <<plannerVars, envVars, env, gamma, theta, V, policy_stable, err, viResult, Vprev, hist>>

\* one pass of the body of the policy-extraction loop of value_iteration
VIExtractStep ==
    /\ pc = "vi_extract"
    /\ InLoop
    /\ IF is_terminal(env, Cur)
       THEN /\ idx' = idx + 1
            /\ simCalls' = {}
            /\ UNCHANGED <<plannerVars, envVars, env, gamma, theta, pc, V, delta, policy, policy_stable,
                           err, viResult, Vprev, hist>>
       ELSE /\ simCalls' = IF ActionsRaises(env, Cur) THEN {}
                           ELSE LoopCalls("value_iteration", env, V, Cur, actions(env, Cur))
            /\ IF GreedyErr(env, V, Cur) # "none"
               THEN VIRaise(GreedyErr(env, V, Cur))
               ELSE /\ policy' = Put(policy, Cur,
                                     Greedy(env, gamma, V, Cur, actions(env, Cur),
                                            NegInf, None))
                    /\ idx' = idx + 1
                    /\ UNCHANGED <<plannerVars, envVars, env, gamma, theta, pc, V, delta, policy_stable,
                                   err, viResult, Vprev, hist>>

\* return policy, V
VIReturn ==
    /\ pc = "vi_extract"
    /\ ~InLoop
    /\ pc' = "idle"
    /\ viResult' = [status |-> "returned", err |-> "none", policy |-> policy,
                    V |-> V, delta |-> delta]
    /\ V' = NoPolicy
    /\ policy' = NoPolicy
    /\ idx' = 1
    /\ delta' = 0
    /\ simCalls' = {}
    /\ UNCHANGED <<plannerVars, envVars, env, gamma, theta, policy_stable, err, Vprev, hist>>

\* --------------------------------------- policy_iteration, policy_evaluation
\* mutant of CallPolicyIteration: works on a copy of the caller's entries for
\* the non-terminal states, {s: policy[s] for s in states if not terminal}
CallPolicyIterationOnCopy ==
    /\ pc = "idle"
    /\ \E p0 \in InitialPolicies(env) :
        /\ policy' = [s \in (DOMAIN p0) \cap NonTerminal(env) |-> p0[s]]
        /\ hist' = [NoHist EXCEPT !.p0 = p0]
    /\ pc' = "pe_sweep"
    /\ V' = ZeroV(env)
    /\ Vprev' = NoPolicy
    /\ idx' = 1
    /\ delta' = 0
    /\ policy_stable' = TRUE
    /\ err' = "none"
    /\ simCalls' = {}
    /\ UNCHANGED <<plannerVars, envVars, env, gamma, theta, viResult>>

\* policy_iteration(env, policy, gamma, theta) is called; its loop starts with
\* policy_evaluation, which starts from V(s) <- 0
CallPolicyIteration ==
    /\ pc = "idle"
    /\ \E p0 \in InitialPolicies(env) :
        /\ policy' = p0
        /\ hist' = [NoHist EXCEPT !.p0 = p0]
    /\ pc' = "pe_sweep"
    /\ V' = ZeroV(env)
    /\ Vprev' = NoPolicy
    /\ idx' = 1
    /\ delta' = 0
    /\ policy_stable' = TRUE
    /\ err' = "none"
    /\ simCalls' = {}
    /\ UNCHANGED <<plannerVars, envVars, env, gamma, theta, viResult>>

\* an exception leaves policy_evaluation and policy_iteration: nothing is
\* returned; the caller's policy object keeps what was written into it
PIRaise(e_) ==
    /\ pc' = "pi_raised"
    /\ err' = e_
    /\ V' = NoPolicy
    /\ UNCHANGED <<plannerVars, envVars, env, gamma, theta, idx, delta, policy, policy_stable, viResult,
                   Vprev, hist>>

\* one pass of the body of the sweep loop of policy_evaluation
PESweepStep ==
    /\ pc = "pe_sweep"
    /\ InLoop
    /\ IF is_terminal(env, Cur)
       THEN /\ idx' = idx + 1
            /\ simCalls' = {}
            /\ UNCHANGED <<plannerVars, envVars, env, gamma, theta, pc, V, delta, policy, policy_stable,
                           err, viResult, Vprev, hist>>
       ELSE /\ simCalls' = IF Lookup(policy, Cur).raises THEN {}
                           ELSE {<<"policy_evaluation", Cur, Lookup(policy, Cur).a>>}
            /\ IF EvalErr(env, V, policy, Cur) # "none"
               THEN PIRaise(EvalErr(env, V, policy, Cur))
               ELSE LET new_v == Q(env, gamma, V, Cur, Lookup(policy, Cur).a)
                    IN /\ V' = [V EXCEPT ![Cur] = new_v]
                       /\ delta' = NewDelta(delta, V[Cur], new_v)
                       /\ idx' = idx + 1
                       /\ UNCHANGED <<plannerVars, envVars, env, gamma, theta, pc, policy, policy_stable,
                                      err, viResult, Vprev, hist>>

\* mutant of PESweepEnd: the stop test is `delta <= theta`
PESweepEndAtMost ==
    /\ pc = "pe_sweep"
    /\ ~InLoop
    /\ idx' = 1
    /\ simCalls' = {}
    /\ IF delta <= theta
       THEN /\ pc' = "pi_improve"
            /\ policy_stable' = TRUE
            /\ hist' = [hist EXCEPT !.round = IF @ < MaxRounds THEN @ + 1 ELSE @,
                                    !.evalOf = policy,
                                    !.exact = @ /\ delta = 0]
            /\ UNCHANGED delta
       ELSE /\ delta' = 0
            /\ UNCHANGED <<pc, policy_stable, hist>>
    /\ UNCHANGED <<plannerVars, envVars, env, gamma, theta, V, policy, err, viResult, Vprev>>

\* mutant of PESweepEnd: `delta = 0` is executed once before the loop, not at
\* the start of every sweep
PESweepEndKeepsDelta ==
    /\ pc = "pe_sweep"
    /\ ~InLoop
    /\ idx' = 1
    /\ simCalls' = {}
    /\ IF delta < theta
       THEN /\ pc' = "pi_improve"
            /\ policy_stable' = TRUE
            /\ hist' = [hist EXCEPT !.round = IF @ < MaxRounds THEN @ + 1 ELSE @,
                                    !.evalOf = policy,
                                    !.exact = @ /\ delta = 0]
            /\ UNCHANGED delta
       ELSE UNCHANGED <<delta, pc, policy_stable, hist>>
    /\ UNCHANGED <<plannerVars, envVars, env, gamma, theta, V, policy, err, viResult, Vprev>>

\* mutant of PESweepEnd: `policy_stable = True` is executed once before the
\* outer loop, not before every improvement pass
PESweepEndStaleFlag ==
    /\ pc = "pe_sweep"
    /\ ~InLoop
    /\ idx' = 1
    /\ simCalls' = {}
    /\ IF delta < theta
       THEN /\ pc' = "pi_improve"
            /\ hist' = [hist EXCEPT !.round = IF @ < MaxRounds THEN @ + 1 ELSE @,
                                    !.evalOf = policy,
                                    !.exact = @ /\ delta = 0]
            /\ UNCHANGED <<delta, policy_stable>>
       ELSE /\ delta' = 0
            /\ UNCHANGED <<pc, policy_stable, hist>>
    /\ UNCHANGED <<plannerVars, envVars, env, gamma, theta, V, policy, err, viResult, Vprev>>

\* the stop test of policy_evaluation; on `break` it returns V to
\* policy_iteration, which starts its improvement pass
PESweepEnd ==
    /\ pc = "pe_sweep"
    /\ ~InLoop
    /\ idx' = 1
    /\ simCalls' = {}
    /\ IF delta < theta
       THEN /\ pc' = "pi_improve"
            /\ policy_stable' = TRUE
            /\ hist' = [hist EXCEPT !.round = IF @ < MaxRounds THEN @ + 1 ELSE @,
                                    !.evalOf = policy,
                                    !.exact = @ /\ delta = 0]
            /\ UNCHANGED delta
       ELSE /\ delta' = 0
            /\ UNCHANGED <<pc, policy_stable, hist>>
    /\ UNCHANGED <<plannerVars, envVars, env, gamma, theta, V, policy, err, viResult, Vprev>>

\* one pass of the body of the improvement loop of policy_iteration
PIImproveStep ==
    /\ pc = "pi_improve"
    /\ InLoop
    /\ IF is_terminal(env, Cur)
       THEN /\ idx' = idx + 1
            /\ simCalls' = {}
            /\ UNCHANGED <<plannerVars, envVars, env, gamma, theta, pc, V, delta, policy, policy_stable,
                           err, viResult, Vprev, hist>>
       ELSE /\ simCalls' = IF Lookup(policy, Cur).raises \/ ActionsRaises(env, Cur) THEN {}
                           ELSE LoopCalls("policy_iteration", env, V, Cur, actions(env, Cur))
            /\ IF Lookup(policy, Cur).raises
               THEN PIRaise("KeyError")
               ELSE IF GreedyErr(env, V, Cur) # "none"
               THEN PIRaise(GreedyErr(env, V, Cur))
               ELSE LET best_a == Greedy(env, gamma, V, Cur, actions(env, Cur),
                                         NegInf, None)
                    IN /\ policy' = Put(policy, Cur, best_a)
                       /\ policy_stable' = (policy_stable /\ best_a = Lookup(policy, Cur).a)
                       /\ idx' = idx + 1
                       /\ UNCHANGED <<plannerVars, envVars, env, gamma, theta, pc, V, delta, err, viResult,
                                      Vprev, hist>>

\* mutant of PIImproveEnd: returns after the first improvement pass, stable or not
PIImproveEndAlways ==
    /\ pc = "pi_improve"
    /\ ~InLoop
    /\ simCalls' = {}
    /\ pc' = "pi_returned"
    /\ UNCHANGED <<V, Vprev, idx, delta>>
    /\ UNCHANGED <<plannerVars, envVars, env, gamma, theta, policy, policy_stable, err, viResult, hist>>

\* mutant of PIImproveEnd: the next policy_evaluation starts from the V of the
\* last one instead of V(s) <- 0
PIImproveEndWarmStart ==
    /\ pc = "pi_improve"
    /\ ~InLoop
    /\ simCalls' = {}
    /\ IF policy_stable
       THEN /\ pc' = "pi_returned"
            /\ UNCHANGED <<V, Vprev, idx, delta>>
       ELSE /\ pc' = "pe_sweep"
            /\ Vprev' = V
            /\ V' = V
            /\ idx' = 1
            /\ delta' = 0
    /\ UNCHANGED <<plannerVars, envVars, env, gamma, theta, policy, policy_stable, err, viResult, hist>>

\* after the improvement pass: `if policy_stable: return policy, V`, else the
\* loop calls policy_evaluation again
PIImproveEnd ==
    /\ pc = "pi_improve"
    /\ ~InLoop
    /\ simCalls' = {}
    /\ IF policy_stable
       THEN /\ pc' = "pi_returned"
            /\ UNCHANGED <<V, Vprev, idx, delta>>
       ELSE /\ pc' = "pe_sweep"
            /\ Vprev' = V
            /\ V' = ZeroV(env)
            /\ idx' = 1
            /\ delta' = 0
    /\ UNCHANGED <<plannerVars, envVars, env, gamma, theta, policy, policy_stable, err, viResult, hist>>

Next ==
    \/ VISweepStep
    \/ VISweepEnd
    \/ VIExtractStep
    \/ VIReturn
    \/ CallPolicyIteration
    \/ PESweepStep
    \/ PESweepEnd
    \/ PIImproveStep
    \/ PIImproveEnd

Spec == Init /\ [][Next]_vars

\* ------------------------------------------------- the environment's episode
\* KnapsackEnv and InventoryEnv objects driven by a caller through reset(),
\* step(), sim_step(), actions() and report_from_policy()
\* the enumerated instances whose k-th value / unit cost is the k-th of the
\* cycle 1, 2, ..., and whose holding cost is the largest: prices play no role
\* in what a step may do
CyclePrices(e) ==
    /\ \A k \in DOMAIN e.values : e.values[k] = ((k - 1) % MaxValue) + 1
    /\ \A k \in DOMAIN e.production_costs :
         e.production_costs[k] = ((k - 1) % MaxCost) + 1
    /\ \A k \in DOMAIN e.holding_costs : e.holding_costs[k] = MaxHolding

EnvInstances ==
    {e \in KnapsackInstances \cup InventoryInstances : CyclePrices(e)}
    \cup {ScenarioKnapsack, ScenarioInventory}

\* what a caller may pass as an action: the legal ones and some that are not
ActionInputs(e) ==
    IF e.kind = "Inventory" THEN 0..(e.capacity + 1) ELSE {skip, take, None}

\* self.state
LiveState == <<self_i, self_c>>

\* a method of env is called between two calls of others, never inside the
\* loop of report_from_policy
Callable == pc = "no_solver" /\ report.pc # "loop"

\* the exception raised by `if action not in self.actions(): raise ValueError`
\* of step(), self.actions() reading the live state, or "none"
StepRaises(a) ==
    IF self_i = None THEN "TypeError"
    ELSE IF ActionsRaises(env, LiveState) THEN "Infeasible"
    ELSE IF a \notin Range(actions(env, LiveState)) THEN "IllegalAction"
    ELSE "none"

\* mutant of KnapsackStep: "take" forgets `c -= self.weights[i]`
KnapsackStepKeepsCapacity(e, s, a) ==
    IF a = take
    THEN [next |-> <<s[1] + 1, s[2]>>, reward |-> e.values[s[1] + 1] * Scale]
    ELSE [next |-> <<s[1] + 1, s[2]>>, reward |-> 0]

\* KnapsackEnv.step after its legality check: (i + 1, c'), reward
KnapsackStep(e, s, a) ==
    IF a = take
    THEN [next |-> <<s[1] + 1, s[2] - e.weights[s[1] + 1]>>,
          reward |-> e.values[s[1] + 1] * Scale]
    ELSE [next |-> <<s[1] + 1, s[2]>>, reward |-> 0]

\* InventoryEnv.step after its legality check: (t + 1, I_t), -cost
InventoryStep(e, s, x) ==
    LET I_t == s[2] + x - e.demand[s[1] + 1]
        cost == e.production_costs[s[1] + 1] * x + e.holding_costs[s[1] + 1] * I_t
    IN [next |-> <<s[1] + 1, I_t>>, reward |-> (-cost) * Scale]

EnvStep(e, s, a) ==
    IF e.kind = "Inventory" THEN InventoryStep(e, s, a) ELSE KnapsackStep(e, s, a)

\* the body of reset()
DoReset ==
    /\ self_i' = 0
    /\ self_c' = IF env.kind = "Inventory" THEN start_inventory ELSE env.capacity
    /\ total_reward' = 0
    /\ taken' = {}
    /\ call' = [NoCall EXCEPT !.op = "reset", !.next = <<self_i', self_c'>>]

\* mutant of DoStep: a rejected action still uses up the period
DoStepAdvancesOnError(a) ==
    IF StepRaises(a) # "none"
    THEN /\ call' = [NoCall EXCEPT !.op = "step", !.s = LiveState, !.a = a,
                                  !.raises = StepRaises(a)]
         /\ self_i' = (IF self_i = None THEN None ELSE self_i + 1)
         /\ UNCHANGED <<self_c, total_reward, taken>>
    ELSE /\ self_i' = EnvStep(env, LiveState, a).next[1]
         /\ self_c' = EnvStep(env, LiveState, a).next[2]
         /\ total_reward' = total_reward + EnvStep(env, LiveState, a).reward
         /\ taken' = IF env.kind = "Knapsack" /\ a = take
                     THEN taken \cup {self_i + 1} ELSE taken
         /\ call' = [NoCall EXCEPT !.op = "step", !.s = LiveState, !.a = a,
                                  !.next = <<self_i', self_c'>>,
                                  !.reward = EnvStep(env, LiveState, a).reward,
                                  !.done = (self_i' = Horizon(env))]

\* the body of step(a): raises and changes nothing, or moves the live state
DoStep(a) ==
    IF StepRaises(a) # "none"
    THEN /\ call' = [NoCall EXCEPT !.op = "step", !.s = LiveState, !.a = a,
                                  !.raises = StepRaises(a)]
         /\ UNCHANGED <<self_i, self_c, total_reward, taken>>
    ELSE /\ self_i' = EnvStep(env, LiveState, a).next[1]
         /\ self_c' = EnvStep(env, LiveState, a).next[2]
         /\ total_reward' = total_reward + EnvStep(env, LiveState, a).reward
         /\ taken' = IF env.kind = "Knapsack" /\ a = take
                     THEN taken \cup {self_i + 1} ELSE taken
         /\ call' = [NoCall EXCEPT !.op = "step", !.s = LiveState, !.a = a,
                                  !.next = <<self_i', self_c'>>,
                                  !.reward = EnvStep(env, LiveState, a).reward,
                                  !.done = (self_i' = Horizon(env))]

\* env.reset()
reset ==
    /\ Callable
    /\ DoReset
    /\ UNCHANGED <<plannerVars, env, solverVars, start_inventory, report>>

\* env.step(a)
step ==
    /\ Callable
    /\ \E a \in ActionInputs(env) : DoStep(a)
    /\ UNCHANGED <<plannerVars, env, solverVars, start_inventory, report>>

\* mutant of CallSimStep: sim_step written like step, on the live fields
CallSimStepOnLive ==
    /\ Callable
    /\ \E s \in StateSet(env), a \in ActionInputs(env) :
        /\ call' = [NoCall EXCEPT !.op = "sim_step", !.s = s, !.a = a,
                                  !.raises = sim_step(env, s, a).raises,
                                  !.next = sim_step(env, s, a).next,
                                  !.reward = sim_step(env, s, a).reward]
        /\ IF sim_step(env, s, a).raises = "none"
           THEN /\ self_i' = sim_step(env, s, a).next[1]
                /\ self_c' = sim_step(env, s, a).next[2]
           ELSE UNCHANGED <<self_i, self_c>>
    /\ UNCHANGED <<plannerVars, env, solverVars, start_inventory, total_reward, taken, report>>

\* env.sim_step(s, a), called by anyone at any time
CallSimStep ==
    /\ Callable
    /\ \E s \in StateSet(env), a \in ActionInputs(env) :
        call' = [NoCall EXCEPT !.op = "sim_step", !.s = s, !.a = a,
                               !.raises = sim_step(env, s, a).raises,
                               !.next = sim_step(env, s, a).next,
                               !.reward = sim_step(env, s, a).reward]
    /\ UNCHANGED <<plannerVars, env, solverVars, start_inventory, self_i, self_c, total_reward,
                   taken, report>>

\* env.actions(s) for a state of state_space()
CallActions ==
    /\ Callable
    /\ \E s \in StateSet(env) :
        call' = IF ActionsRaises(env, s)
                THEN [NoCall EXCEPT !.op = "actions", !.s = s, !.raises = "Infeasible"]
                ELSE [NoCall EXCEPT !.op = "actions", !.s = s, !.acts = actions(env, s)]
    /\ UNCHANGED <<plannerVars, env, solverVars, start_inventory, self_i, self_c, total_reward,
                   taken, report>>

\* KnapsackEnv.report_from_policy(policy): state = self.reset(), accumulators
ReportStart ==
    /\ Callable
    /\ env.kind = "Knapsack"
    /\ DoReset
    /\ \E p \in InitialPolicies(env) :
        report' = [NoReport EXCEPT !.pc = "loop", !.policy = p,
                                   !.state = <<0, env.capacity>>]
    /\ UNCHANGED <<plannerVars, env, solverVars, start_inventory>>

\* one pass of `while not self.is_terminal(state)` of report_from_policy
ReportStep ==
    /\ pc = "no_solver"
    /\ report.pc = "loop"
    /\ ~is_terminal(env, report.state)
    /\ IF report.state \notin DOMAIN report.policy
       THEN /\ report' = NoReport
            /\ call' = [NoCall EXCEPT !.op = "report_from_policy",
                                      !.policy = report.policy, !.raises = "KeyError"]
            /\ UNCHANGED <<self_i, self_c, total_reward, taken>>
       ELSE LET action == report.policy[report.state]
                idx_ == report.state[1]
            IN /\ IF StepRaises(action) # "none"
                  THEN /\ call' = [NoCall EXCEPT !.op = "report_from_policy",
                                                 !.policy = report.policy,
                                                 !.raises = StepRaises(action)]
                       /\ UNCHANGED <<self_i, self_c, total_reward, taken>>
                  ELSE DoStep(action)
               /\ report' =
                    IF StepRaises(action) # "none"
                    THEN NoReport
                    ELSE IF action = take
                    THEN [report EXCEPT
                            !.state = <<self_i', self_c'>>,
                            !.objetos_tomados = Append(@, idx_),
                            !.peso_total = @ + env.weights[idx_ + 1],
                            !.valor_total = @ + env.values[idx_ + 1]]
                    ELSE [report EXCEPT !.state = <<self_i', self_c'>>]
    /\ UNCHANGED <<plannerVars, env, solverVars, start_inventory>>

\* return valor_total, objetos_tomados, peso_total
ReportReturn ==
    /\ pc = "no_solver"
    /\ report.pc = "loop"
    /\ is_terminal(env, report.state)
    /\ report' = NoReport
    /\ call' = [NoCall EXCEPT !.op = "report_from_policy", !.policy = report.policy,
                              !.valor_total = report.valor_total,
                              !.objetos_tomados = report.objetos_tomados,
                              !.peso_total = report.peso_total]
    /\ UNCHANGED <<plannerVars, env, solverVars, start_inventory, self_i, self_c, total_reward,
                   taken>>

EnvInit ==
    /\ env \in EnvInstances
    /\ start_inventory \in (IF env.kind = "Inventory" THEN 0..env.capacity ELSE {0})
    /\ Constructed
    /\ NotPlanning
    /\ gamma = 2
    /\ theta = 1
    /\ pc = "no_solver"
    /\ idx = 1
    /\ V = NoPolicy
    /\ delta = 0
    /\ policy = NoPolicy
    /\ policy_stable = TRUE
    /\ err = "none"
    /\ viResult = NoResult
    /\ Vprev = NoPolicy
    /\ hist = NoHist
    /\ simCalls = {}

EnvNext ==
    \/ reset
    \/ step
    \/ CallSimStep
    \/ CallActions
    \/ ReportStart
    \/ ReportStep
    \/ ReportReturn

EnvSpec == EnvInit /\ [][EnvNext]_vars

\* --------------------------------------------- weights and demands of any sign
\* Neither constructor looks at the sign of a weight or of a demand:
\* KnapsackEnv stores list(weights), InventoryEnv list(map(int, demand)).
SignedInstances ==
    {e \in {KnapsackEnv(w, v, c) :
                <<w, v>> \in UNION {[1..n -> (-1)..MaxWeight] \X [1..n -> 1..MaxValue] :
                                        n \in 1..MaxItems},
                c \in 0..MaxCapacity}
            \cup
            {InventoryEnv(d, pc_, [t \in DOMAIN d |-> MaxHolding], c) :
                <<d, pc_>> \in UNION {[1..n -> (-1)..MaxCapacity] \X [1..n -> 1..MaxCost] :
                                        n \in 1..MaxItems},
                c \in 1..MaxCapacity} :
        CyclePrices(e)}

EnvInitAnySign ==
    /\ env \in SignedInstances
    /\ start_inventory \in (IF env.kind = "Inventory" THEN 0..env.capacity ELSE {0})
    /\ Constructed
    /\ NotPlanning
    /\ gamma = 2
    /\ theta = 1
    /\ pc = "no_solver"
    /\ idx = 1
    /\ V = NoPolicy
    /\ delta = 0
    /\ policy = NoPolicy
    /\ policy_stable = TRUE
    /\ err = "none"
    /\ viResult = NoResult
    /\ Vprev = NoPolicy
    /\ hist = NoHist
    /\ simCalls = {}

AnySignSpec == EnvInitAnySign /\ [][EnvNext]_vars

\* ------------------------------------------- any theta, and runs that go on
\* theta as a caller may pass it: -1, 0, the smallest and the largest of the
\* positive thresholds
ThetaAny == {-Scale, 0, 1, 4 * Scale}

\* a caller starts with value_iteration or calls policy_iteration directly
InitAnyTheta ==
    /\ env \in {e \in Instances : CyclePrices(e) /\ e.capacity <= MaxUnits}
    /\ gamma \in GammaSet
    /\ theta \in ThetaAny
    /\ pc \in {"vi_sweep", "idle"}
    /\ idx = 1
    /\ V = (IF pc = "vi_sweep" THEN ZeroV(env) ELSE NoPolicy)
    /\ delta = 0
    /\ policy = NoPolicy
    /\ policy_stable = TRUE
    /\ err = "none"
    /\ viResult = NoResult
    /\ Vprev = NoPolicy
    /\ hist = NoHist
    /\ simCalls = {}
    /\ start_inventory = 0
    /\ Constructed
    /\ NotPlanning

\* the interpreter always executes the next statement of a running solver
FairSpec == InitAnyTheta /\ [][Next]_vars /\ WF_vars(Next)

\* --------------------------------------- rounds of policy_iteration, theta > 0
\* three items of which the first fills the knapsack or the two others do
AlternatingKnapsack == KnapsackEnv(<<2, 1, 1>>, <<2, 1, 1>>, 2)

\* a caller's first call with a positive threshold, fine or coarse
InitPositiveTheta ==
    /\ env \in {e \in Instances : CyclePrices(e) /\ e.capacity <= MaxUnits}
                \cup {AlternatingKnapsack}
    /\ gamma \in GammaSet
    /\ theta \in ThetaSet
    /\ pc \in {"vi_sweep", "idle"}
    /\ idx = 1
    /\ V = (IF pc = "vi_sweep" THEN ZeroV(env) ELSE NoPolicy)
    /\ delta = 0
    /\ policy = NoPolicy
    /\ policy_stable = TRUE
    /\ err = "none"
    /\ viResult = NoResult
    /\ Vprev = NoPolicy
    /\ hist = NoHist
    /\ simCalls = {}
    /\ start_inventory = 0
    /\ Constructed
    /\ NotPlanning

RoundsSpec == InitPositiveTheta /\ [][Next]_vars /\ WF_vars(Next)

\* ----------------------------------- running the policy a solver has returned
\* value_iteration or policy_iteration has returned (policy, V) to the caller
Returned == (pc = "idle" /\ viResult.status = "returned") \/ pc = "pi_returned"
ReturnedPolicy == IF pc = "pi_returned" THEN policy ELSE viResult.policy
ReturnedV == IF pc = "pi_returned" THEN V ELSE viResult.V
ReturnedDelta == IF pc = "pi_returned" THEN delta ELSE viResult.delta

\* the episode loop of report_from_policy with the returned policy:
\*   state = self.reset()
EpisodeStart ==
    /\ Returned
    /\ report.pc # "loop"
    /\ DoReset
    /\ report' = [NoReport EXCEPT !.pc = "loop", !.policy = ReturnedPolicy,
                                  !.state = <<self_i', self_c'>>]
    /\ UNCHANGED <<plannerVars, env, solverVars, start_inventory>>

\*   while not self.is_terminal(state): state, _, _ = self.step(policy[state])
EpisodeStep ==
    /\ Returned
    /\ report.pc = "loop"
    /\ ~is_terminal(env, report.state)
    /\ IF report.state \notin DOMAIN report.policy
       THEN /\ report' = NoReport
            /\ call' = [NoCall EXCEPT !.op = "report_from_policy",
                                      !.policy = report.policy, !.raises = "KeyError"]
            /\ UNCHANGED <<self_i, self_c, total_reward, taken>>
       ELSE /\ DoStep(report.policy[report.state])
            /\ report' = IF StepRaises(report.policy[report.state]) # "none"
                         THEN NoReport
                         ELSE [report EXCEPT !.state = <<self_i', self_c'>>]
    /\ UNCHANGED <<plannerVars, env, solverVars, start_inventory>>

\* the loop ends at a terminal state; self.total_reward holds the return
EpisodeEnd ==
    /\ Returned
    /\ report.pc = "loop"
    /\ is_terminal(env, report.state)
    /\ report' = [report EXCEPT !.pc = "done"]
    /\ UNCHANGED <<plannerVars, env, solverVars, start_inventory, self_i, self_c, total_reward,
                   call, taken>>

\* the caller is one thread: it calls a solver or runs an episode
EpisodeNext ==
    \/ (report.pc # "loop" /\ Next)
    \/ EpisodeStart
    \/ EpisodeStep
    \/ EpisodeEnd

EpisodeSpec == InitPositiveTheta /\ [][EpisodeNext]_vars

\* ------------------------------------------------------------ heuristica_eoq
\* nothing else runs while a helper is called on its own
NoSolverNoEpisode ==
    /\ env = ScenarioKnapsack
    /\ start_inventory = 0
    /\ Constructed
    /\ gamma = 2
    /\ theta = 1
    /\ pc = "no_solver"
    /\ idx = 1
    /\ V = NoPolicy
    /\ delta = 0
    /\ policy = NoPolicy
    /\ policy_stable = TRUE
    /\ err = "none"
    /\ viResult = NoResult
    /\ Vprev = NoPolicy
    /\ hist = NoHist
    /\ simCalls = {}

\* heuristica_eoq(M, d, I_0, EOQ) after its initialisation: M = [1, ..., n],
\* produccion = {t: 0 for t in M}, inv = I_0, idx = 0.  The history field
\* blocks counts, for every period, the blocks formed over it.
LotStart(n, d, I_0, EOQ) ==
    [pc |-> "outer", M |-> [i \in 1..n |-> i], d |-> d, I_0 |-> I_0, EOQ |-> EOQ,
     n |-> n, produccion |-> [t \in 1..n |-> 0], inventario_ini |-> <<>>,
     inventario_fin |-> <<>>, inv |-> I_0, idx |-> 0, t_ini |-> 0,
     demanda_acum |-> 0, k |-> 0, j |-> 0, blocks |-> [t \in 1..n |-> 0]]

\* the arguments: no period to MaxPeriods, no demand to MaxDemand, a lot size
\* that may be zero or negative
EoqInit ==
    /\ NoSolverNoEpisode
    /\ sub = NoSub
    /\ lot \in {LotStart(x[1][1], x[1][2], x[2], x[3]) :
                  x \in (UNION {{<<n, d>> : d \in [1..n -> 0..MaxDemand]} :
                                    n \in 0..MaxPeriods})
                        \X (0..MaxStock) \X ((-1)..MaxLot)}

\* `while idx < n:` entered: t_ini = M[idx], inventario_ini[t_ini] = inv,
\* demanda_acum = 0, k = 0
EoqBlockStart ==
    /\ lot.pc = "outer"
    /\ lot.idx < lot.n
    /\ lot' = [lot EXCEPT !.pc = "inner",
                          !.t_ini = lot.M[lot.idx + 1],
                          !.inventario_ini = Put(@, lot.M[lot.idx + 1], lot.inv),
                          !.demanda_acum = 0,
                          !.k = 0]
    /\ UNCHANGED <<env, solverVars, envVars, sub>>

\* `while idx + k < n and demanda_acum < EOQ:` one more period joins the block
EoqAccumulate ==
    /\ lot.pc = "inner"
    /\ lot.idx + lot.k < lot.n
    /\ lot.demanda_acum < lot.EOQ
    /\ lot' = [lot EXCEPT !.demanda_acum = @ + lot.d[lot.M[lot.idx + lot.k + 1]],
                          !.k = @ + 1]
    /\ UNCHANGED <<env, solverVars, envVars, sub>>

\* the inner loop is left: the block is idx .. idx+k-1; q = max(0,
\* demanda_acum - inv) is produced in t_ini
EoqProduce ==
    /\ lot.pc = "inner"
    /\ ~(lot.idx + lot.k < lot.n /\ lot.demanda_acum < lot.EOQ)
    /\ LET q == Max(0, lot.demanda_acum - lot.inv)
       IN lot' = [lot EXCEPT !.pc = "serve",
                             !.produccion[lot.t_ini] = @ + q,
                             !.inv = @ + q,
                             !.j = 0,
                             !.blocks = [t \in 1..lot.n |->
                                            IF lot.idx < t /\ t <= lot.idx + lot.k
                                            THEN @[t] + 1 ELSE @[t]]]
    /\ UNCHANGED <<env, solverVars, envVars, sub>>

\* `for j in range(k):` the demand of period M[idx + j] is served; a shortage
\* is added to the production of t_ini
EoqServe ==
    /\ lot.pc = "serve"
    /\ lot.j < lot.k
    /\ LET t_cur == lot.M[lot.idx + lot.j + 1]
           left == lot.inv - lot.d[t_cur]
       IN lot' = [lot EXCEPT !.inventario_ini = IF lot.j > 0 THEN Put(@, t_cur, lot.inv)
                                                ELSE @,
                             !.produccion[lot.t_ini] = IF left < 0 THEN @ - left ELSE @,
                             !.inv = IF left < 0 THEN 0 ELSE left,
                             !.inventario_fin = Put(@, t_cur, IF left < 0 THEN 0 ELSE left),
                             !.j = @ + 1]
    /\ UNCHANGED <<env, solverVars, envVars, sub>>

\* idx += k
EoqAdvance ==
    /\ lot.pc = "serve"
    /\ lot.j >= lot.k
    /\ lot' = [lot EXCEPT !.pc = "outer", !.idx = @ + lot.k]
    /\ UNCHANGED <<env, solverVars, envVars, sub>>

\* the outer loop is left: setdefault(t, 0) on the three tables, return
EoqReturn ==
    /\ lot.pc = "outer"
    /\ lot.idx >= lot.n
    /\ lot' = [lot EXCEPT
                !.pc = "returned",
                !.inventario_ini = [t \in 1..lot.n |-> IF t \in DOMAIN @ THEN @[t] ELSE 0],
                !.inventario_fin = [t \in 1..lot.n |-> IF t \in DOMAIN @ THEN @[t] ELSE 0]]
    /\ UNCHANGED <<env, solverVars, envVars, sub>>

EoqNext ==
    \/ EoqBlockStart
    \/ EoqAccumulate
    \/ EoqProduce
    \/ EoqServe
    \/ EoqAdvance
    \/ EoqReturn

\* the interpreter always executes the next statement of the running call
EoqSpec == EoqInit /\ [][EoqNext]_vars /\ WF_vars(EoqNext)

\* ------------------------------------------------------ identificar_subtours
\* identificar_subtours(succ, N) after `unvisited = set(N)`, `subtours = []`;
\* N = 1..n, succ[i] = None when i is not a key of the dictionary
SubStart(n, succ) ==
    [pc |-> "outer", N |-> 1..n, succ |-> succ, unvisited |-> 1..n,
     subtours |-> <<>>, start |-> None, tour |-> <<>>, cur |-> None]

\* the arguments: any dictionary from nodes to nodes, a permutation or not
SubInit ==
    /\ NoSolverNoEpisode
    /\ lot = NoLot
    /\ sub \in {SubStart(x[1], x[2]) :
                  x \in UNION {{<<n, su>> : su \in [1..n -> (1..n) \cup {None}]} :
                                  n \in 1..MaxNodes}}

\* `while unvisited:` entered: start = unvisited.pop() takes any element;
\* tour = [start], cur = start
SubPop ==
    /\ sub.pc = "outer"
    /\ sub.unvisited # {}
    /\ \E start \in sub.unvisited :
        sub' = [sub EXCEPT !.pc = "inner",
                           !.unvisited = @ \ {start},
                           !.start = start,
                           !.tour = <<start>>,
                           !.cur = start]
    /\ UNCHANGED <<env, solverVars, envVars, lot>>

\* mutant of SubAppend: `unvisited.remove(nxt)` is left out
SubAppendKeepsUnvisited ==
    /\ sub.pc = "inner"
    /\ sub.succ[sub.cur] # None
    /\ sub.succ[sub.cur] # sub.start
    /\ Len(sub.tour) <= MaxNodes
    /\ sub' = [sub EXCEPT !.tour = Append(@, sub.succ[sub.cur]),
                          !.cur = sub.succ[sub.cur]]
    /\ UNCHANGED <<env, solverVars, envVars, lot>>

\* `while True:` nxt = succ.get(cur) is a node other than start:
\* tour.append(nxt), unvisited.remove(nxt) if it is there, cur = nxt.
\* A walk that never comes back to start goes on forever in the code; here it
\* stops being followed once the tour is longer than any node list.
SubAppend ==
    /\ sub.pc = "inner"
    /\ sub.succ[sub.cur] # None
    /\ sub.succ[sub.cur] # sub.start
    /\ Len(sub.tour) <= MaxNodes
    /\ sub' = [sub EXCEPT !.tour = Append(@, sub.succ[sub.cur]),
                          !.unvisited = @ \ {sub.succ[sub.cur]},
                          !.cur = sub.succ[sub.cur]]
    /\ UNCHANGED <<env, solverVars, envVars, lot>>

\* nxt is None or nxt == start: break, subtours.append(tour)
SubClose ==
    /\ sub.pc = "inner"
    /\ (sub.succ[sub.cur] = None \/ sub.succ[sub.cur] = sub.start)
    /\ sub' = [sub EXCEPT !.pc = "outer", !.subtours = Append(@, sub.tour)]
    /\ UNCHANGED <<env, solverVars, envVars, lot>>

\* unvisited is empty: return subtours
SubReturn ==
    /\ sub.pc = "outer"
    /\ sub.unvisited = {}
    /\ sub' = [sub EXCEPT !.pc = "returned"]
    /\ UNCHANGED <<env, solverVars, envVars, lot>>

SubNext ==
    \/ SubPop
    \/ SubAppend
    \/ SubClose
    \/ SubReturn

\* the interpreter always executes the next statement of the running call
SubSpec == SubInit /\ [][SubNext]_vars /\ WF_vars(SubNext)

\* ------------------------------------ policy_evaluation over any state order
\* policy_evaluation(env, policy, gamma, theta) for an env whose state_space()
\* returns the states in the order ord: one sweep from position k with the
\* values W and the running delta d ...
RECURSIVE SweepIn(_, _, _, _, _, _, _)
SweepIn(e, g, W, p, ord, k, d) ==
    IF k > Len(ord) THEN [V |-> W, delta |-> d]
    ELSE IF is_terminal(e, ord[k]) THEN SweepIn(e, g, W, p, ord, k + 1, d)
    ELSE LET s == ord[k]
             new_v == Q(e, g, W, s, p[s])
         IN SweepIn(e, g, [W EXCEPT ![s] = new_v], p, ord, k + 1,
                    NewDelta(d, W[s], new_v))

\* ... and the `while True` loop: sweeps until one ends with delta < theta
RECURSIVE EvaluateIn(_, _, _, _, _, _, _)
EvaluateIn(e, g, th, p, ord, W, n) ==
    LET swept == SweepIn(e, g, W, p, ord, 1, 0)
    IN IF swept.delta < th
       THEN [V |-> swept.V, delta |-> swept.delta, sweeps |-> n]
       ELSE EvaluateIn(e, g, th, p, ord, swept.V, n + 1)

policy_evaluation(e, p, g, th, ord) == EvaluateIn(e, g, th, p, ord, ZeroV(e), 1)

\* other enumerations of the same states: last to first, and capacity by
\* capacity instead of period by period
Reverse(q) == [k \in 1..Len(q) |-> q[Len(q) + 1 - k]]

CapacityMajor(e) ==
    [k \in 1..((Horizon(e) + 1) * (e.capacity + 1)) |->
        <<(k - 1) % (Horizon(e) + 1), (k - 1) \div (Horizon(e) + 1)>>]

Orders(e) == {state_space(e), Reverse(state_space(e)), CapacityMajor(e)}

\* ------------------------------------------------------------------ sanity
TypeOK ==
    /\ pc \in {"vi_sweep", "vi_extract", "idle", "pe_sweep", "pi_improve",
               "pi_returned", "pi_raised", "no_solver"}
    /\ \A s \in DOMAIN V : V[s] > NegInf \div 2
    /\ \A s \in DOMAIN V : s[1] >= 1 => (gamma * V[s]) % 2 = 0

\* ================================================================== claims
\* both solvers have returned on an environment that honours the interface,
\* policy_iteration from a total policy of legal actions, gamma in (0, 1]
BothReturned ==
    /\ pc = "pi_returned"
    /\ viResult.status = "returned"
    /\ LegalPolicy(env, hist.p0)
    /\ env.kind # "Stub"
    /\ gamma > 0

\* two or more legal actions attain the maximal one-step lookahead at s under W
Tied(e, g, W, s) ==
    Cardinality({k \in 1..Len(actions(e, s)) :
                    Q(e, g, W, s, actions(e, s)[k]) = MaxQ(e, g, W, s, actions(e, s))}) >= 2

ValuesWithinTheta == \A s \in StateSet(env) : Abs(viResult.V[s] - V[s]) < theta

PoliciesDifferOnlyAtTies ==
    \A s \in NonTerminal(env) :
        viResult.policy[s] # policy[s] =>
            Tied(env, gamma, viResult.V, s) \/ Tied(env, gamma, V, s)

RECURSIVE SumOver(_, _)
SumOver(f, S) ==
    IF S = {} THEN 0
    ELSE LET k == CHOOSE x \in S : TRUE IN f[k] + SumOver(f, S \ {k})

\* the best total value of a subset of items i..n-1 (0-based) of weight <= c
BruteForce(e, i, c) ==
    LET fits == {S \in SUBSET ((i + 1)..Horizon(e)) : SumOver(e.weights, S) <= c}
    IN CHOOSE b \in {SumOver(e.values, S) : S \in fits} :
          \A S \in fits : SumOver(e.values, S) <= b

KnapsackOptimal ==
    /\ \A s \in StateSet(env) : viResult.V[s] = Scale * BruteForce(env, s[1], s[2])
    /\ env = ScenarioKnapsack =>
        /\ viResult.V[<<0, 5>>] = 7 * Scale
        /\ viResult.policy[<<0, 5>>] = take
        /\ viResult.policy[<<1, 3>>] = take
        /\ viResult.policy[<<2, 0>>] = skip

C3_NoImprovingAction ==
    pc = "pi_returned" =>
        /\ hist.evalOf = policy
        /\ \A s \in NonTerminal(env) :
            \A k \in 1..Len(actions(env, s)) :
                Q(env, gamma, V, s, actions(env, s)[k]) <= Q(env, gamma, V, s, policy[s])

\* C3 witness: policy_iteration returned after changing the policy, and some
\* state has an action strictly worse than the policy's
C3_Witness ==
    /\ pc = "pi_returned"
    /\ hist.round >= 2
    /\ \E s \in NonTerminal(env) :
        \E k \in 1..Len(actions(env, s)) :
            Q(env, gamma, V, s, actions(env, s)[k]) < Q(env, gamma, V, s, policy[s])

\* policy_evaluation has returned V for the policy hist.evalOf
Evaluated == pc \in {"pi_improve", "pi_returned"}

\* C4: when policy_evaluation terminates, |V[s] - (r + gamma*V[s'])| < theta
\* at every non-terminal state s, for (s', r) = sim_step(s, policy[s]), although
\* the sweep writes V in place.
C4_FixedPointResidual ==
    Evaluated =>
        \A s \in NonTerminal(env) :
            Abs(V[s] - Q(env, gamma, V, s, hist.evalOf[s])) < theta

\* C4 witness: policy_evaluation returned after a last sweep that still changed
\* values, and some V[s] no longer equals r + gamma*V[s'] because V[s'] was
\* overwritten after V[s] was computed
C4_Witness ==
    /\ pc = "pi_improve"
    /\ idx = 1
    /\ delta > 0
    /\ \E s \in NonTerminal(env) : V[s] # Q(env, gamma, V, s, hist.evalOf[s])

\* C5: V[s] = 0 for every terminal state s at every point of every sweep of
\* the three solvers and in every returned V.
C5_TerminalZero ==
    /\ \A s \in DOMAIN V : is_terminal(env, s) => V[s] = 0
    /\ \A s \in DOMAIN viResult.V : is_terminal(env, s) => viResult.V[s] = 0

\* C5 witness: a later sweep of a later policy_evaluation has passed the
\* terminal states, with non-zero values elsewhere, after value_iteration
\* returned non-zero values
C5_Witness ==
    /\ pc = "pe_sweep"
    /\ ~InLoop
    /\ hist.round >= 1
    /\ delta = 0
    /\ \E s \in DOMAIN V : V[s] # 0
    /\ \E s \in DOMAIN viResult.V : viResult.V[s] # 0

\* policy_iteration holds the V of round k+1 in V and the V of round k in Vprev
TwoRounds == Evaluated /\ hist.round >= 2 /\ env.kind # "Stub"

\* C6, as stated: in policy_iteration the V of the (k+1)-th policy_evaluation
\* is >= the V of the k-th at every state, for every round until stability.
C6_AnyTheta == TwoRounds => \A s \in StateSet(env) : V[s] >= Vprev[s]

\* C6, amended: the same, for the runs in which every policy_evaluation so far
\* stopped on a sweep that changed nothing (delta = 0), as it does when theta
\* is at most the resolution of the values.
C6_ExactSweeps ==
    (TwoRounds /\ hist.exact) => \A s \in StateSet(env) : V[s] >= Vprev[s]

\* C6 witness: a second (or later) exact evaluation strictly raised some value
C6_Witness ==
    /\ TwoRounds
    /\ hist.exact
    /\ \E s \in StateSet(env) : V[s] > Vprev[s]

\* constant positive unit production cost (holding costs are never negative
\* in the instances drawn)
ConstantCost(e) ==
    /\ e.kind = "Inventory"
    /\ \A t \in DOMAIN e.production_costs :
        e.production_costs[t] > 0 /\ e.production_costs[t] = e.production_costs[1]
    /\ \A t \in DOMAIN e.holding_costs : e.holding_costs[t] >= 0

\* the states met when policy p is followed from s, the last one terminal
RECURSIVE Trace(_, _, _)
Trace(e, p, s) ==
    IF is_terminal(e, s) THEN <<s>>
    ELSE <<s>> \o Trace(e, p, sim_step(e, s, p[s]).next)

\* the orders placed along a trace
OrdersAlong(p, tr) == [k \in 1..(Len(tr) - 1) |-> p[tr[k]]]

\* C7: on an InventoryEnv with constant positive production cost, holding
\* costs >= 0 and every demand <= capacity, the policy of value_iteration
\* (gamma = 1) orders max(0, demand[t] - S) at every non-terminal (t, S);
\* followed from (0, 0), total production equals total demand and the
\* inventory is never negative.
C7_MinimumOrders ==
    (viResult.status = "returned" /\ gamma = 2 /\ ConstantCost(env)) =>
        /\ \A s \in NonTerminal(env) : viResult.policy[s] = InventoryMinOrder(env, s)
        /\ LET tr == Trace(env, viResult.policy, <<0, 0>>)
           IN /\ SumSeq(OrdersAlong(viResult.policy, tr)) = SumSeq(env.demand)
              /\ \A k \in 1..Len(tr) : tr[k][2] >= 0
        /\ env = ScenarioInventory =>
              OrdersAlong(viResult.policy, Trace(env, viResult.policy, <<0, 0>>)) = <<1, 1>>

\* C7 witness: value_iteration returned on the 2-period scenario, where ordering
\* early ties with ordering late (zero holding cost)
C7_Witness ==
    /\ viResult.status = "returned"
    /\ gamma = 2
    /\ env = ScenarioInventory
    /\ Tied(env, gamma, viResult.V, <<0, 0>>)

\* the states the running sweep has already passed
Passed == {state_space(env)[k] : k \in 1..(idx - 1)}

\* C8: policy_evaluation (and policy_iteration through it) given a policy with
\* no entry for a non-terminal state raises a KeyError at the moment the
\* first sweep visits that state; nothing catches it and no V is returned.
C8_MissingEntryRaises ==
    /\ [](pc = "pe_sweep" => (Passed \cap NonTerminal(env)) \subseteq DOMAIN policy)
    /\ [](Evaluated => NonTerminal(env) \subseteq DOMAIN policy)
    /\ [][(pc = "pe_sweep" /\ InLoop /\ ~is_terminal(env, Cur)
            /\ Cur \notin DOMAIN policy)
          => (pc' = "pi_raised" /\ err' = "KeyError" /\ V' = NoPolicy)]_vars

\* C8 witness: the first sweep passed some states, then raised KeyError at the
\* state the policy has no entry for
C8_Witness ==
    /\ pc = "pi_raised"
    /\ err = "KeyError"
    /\ hist.round = 0
    /\ idx > 1
    /\ state_space(env)[idx] \notin DOMAIN policy

\* C9, as stated: when actions(s) is empty at a non-terminal state s, both
\* value_iteration and policy_iteration fail with the empty-sequence error of
\* the max/argmax step and return nothing; neither completes with an
\* action-less entry for s (policy_iteration being given a total policy).
C9_EmptyActionsRaise ==
    env.dead # {} =>
        /\ viResult.status # "returned"
        /\ viResult.status = "raised" => viResult.err = "EmptySequence"
        /\ DOMAIN hist.p0 = NonTerminal(env) =>
            /\ pc # "pi_returned"
            /\ pc = "pi_raised" => err = "EmptySequence"

\* the value_iteration half of C9, which the code does satisfy
C9_ValueIterationRaises ==
    env.dead # {} =>
        /\ viResult.status # "returned"
        /\ viResult.status = "raised" => viResult.err = "EmptySequence"

\* C10, as stated: every call sim_step(s, a) issued by a solver has s
\* non-terminal and a in actions(s), whatever policy the caller supplied
\* (read here on KnapsackEnv and feasible InventoryEnv instances only).
C10_AnyPolicy ==
    WellFormed(env) =>
        \A c \in simCalls : ~is_terminal(env, c[2]) /\ Legal(env, c[2], c[3])

\* C10, amended: every call sim_step(s, a) has s non-terminal; the calls of
\* value_iteration and of the improvement pass of policy_iteration have a in
\* actions(s); the calls of policy_evaluation have a = policy[s], which is in
\* actions(s) whenever the caller supplied a total policy of legal actions.
C10_LegalPolicy ==
    \A c \in simCalls :
        /\ ~is_terminal(env, c[2])
        /\ c[1] # "policy_evaluation" => Legal(env, c[2], c[3])
        /\ c[1] = "policy_evaluation" =>
            /\ c[3] = policy[c[2]]
            /\ LegalPolicy(env, hist.p0) => Legal(env, c[2], c[3])

\* C10 witness: policy_evaluation, called again after an improvement pass that
\* changed the policy, simulates the improved action
C10_Witness ==
    /\ hist.round >= 1
    /\ LegalPolicy(env, hist.p0)
    /\ \E c \in simCalls :
        c[1] = "policy_evaluation" /\ c[3] # hist.p0[c[2]]

\* C13: sim_step of KnapsackEnv and of InventoryEnv is pure: what a call
\* returns or raises is a function of (state, action) and the constructor data
\* alone, and every call, returning or raising, leaves self.i, self.c (self.t,
\* self.S) and self.total_reward as they were, wherever it falls among the
\* reset() and step() calls.
C13_SimStepPure ==
    /\ [](call.op = "sim_step" =>
            /\ call.raises = sim_step(env, call.s, call.a).raises
            /\ call.raises = "none" =>
                /\ call.next = sim_step(env, call.s, call.a).next
                /\ call.reward = sim_step(env, call.s, call.a).reward)
    /\ [][call'.op = "sim_step" => UNCHANGED <<self_i, self_c, total_reward>>]_vars

\* C13 witness: in the middle of an episode that has earned a reward, sim_step
\* was called on a state other than the live one and returned
C13_Witness ==
    /\ call.op = "sim_step"
    /\ call.raises = "none"
    /\ self_i # None
    /\ self_i >= 1
    /\ total_reward # 0
    /\ call.s # LiveState
    /\ call.next # LiveState

\* C14: for every state s of state_space() of KnapsackEnv and of InventoryEnv,
\* actions(s), when it returns, is empty exactly when is_terminal(s); so every
\* non-terminal state for which it returns has a legal action.
C14_EmptyIffTerminal ==
    /\ \A s \in StateSet(env) :
        ~ActionsRaises(env, s) => (actions(env, s) = <<>> <=> is_terminal(env, s))
    /\ (call.op = "actions" /\ call.raises = "none") =>
        (call.acts = <<>> <=> is_terminal(env, call.s))

\* C14 witness: actions(s) was called on a non-terminal state whose item does
\* not fit and returned the single action "skip"
C14_Witness ==
    /\ call.op = "actions"
    /\ env.kind = "Knapsack"
    /\ ~is_terminal(env, call.s)
    /\ call.acts = <<skip>>

\* C19: after reset() and any successful step() calls on a KnapsackEnv (weights
\* >= 0): 0 <= c <= capacity, i <= n, and capacity - c is the total weight of
\* the items taken; report_from_policy returns peso_total <= capacity for every
\* policy of legal actions.
C19_CapacityRespected ==
    /\ (env.kind = "Knapsack" /\ self_i # None) =>
        /\ 0 <= self_c /\ self_c <= env.capacity
        /\ 0 <= self_i /\ self_i <= Horizon(env)
        /\ env.capacity - self_c = SumOver(env.weights, taken)
    /\ (call.op = "report_from_policy" /\ LegalPolicy(env, call.policy)) =>
        call.raises = "none"
    /\ (call.op = "report_from_policy" /\ call.raises = "none") =>
        /\ call.peso_total <= env.capacity
        /\ call.peso_total = env.capacity - self_c
        /\ call.peso_total = SumOver(env.weights, taken)

\* C19 witness: report_from_policy returned after taking two items that fill
\* the knapsack exactly
C19_Witness ==
    /\ call.op = "report_from_policy"
    /\ call.raises = "none"
    /\ Len(call.objetos_tomados) = 2
    /\ call.peso_total = env.capacity
    /\ env.capacity > 0

\* C20: after reset() and any successful step() calls on an InventoryEnv
\* (demands >= 0): 0 <= t <= n and 0 <= S <= capacity, and each step's
\* end-of-period inventory I_t = S + x - demand[t] is neither negative nor
\* above capacity (the demand of the period was met in full).
C20_InventoryWithinBounds ==
    /\ (env.kind = "Inventory" /\ self_i # None) =>
        /\ 0 <= self_i /\ self_i <= Horizon(env)
        /\ 0 <= self_c /\ self_c <= env.capacity
    /\ (env.kind = "Inventory" /\ call.op = "step" /\ call.raises = "none") =>
        LET I_t == call.s[2] + call.a - env.demand[call.s[1] + 1]
        IN /\ 0 <= I_t /\ I_t <= env.capacity
           /\ call.next = <<call.s[1] + 1, I_t>>
           /\ LiveState = call.next

\* C20 witness: an episode that started with stock has just ended, its last
\* step having ordered something and met a positive demand
C20_Witness ==
    /\ env.kind = "Inventory"
    /\ call.op = "step"
    /\ call.raises = "none"
    /\ call.done
    /\ start_inventory > 0
    /\ call.a > 0
    /\ env.demand[call.s[1] + 1] > 0
    /\ Horizon(env) >= 2

\* a sweep of a solver has just run to its end and its stop test is next
SweepEnded == pc \in {"vi_sweep", "pe_sweep"} /\ ~InLoop

\* C11, as stated: for theta <= 0 none of the three solvers ever terminates,
\* on any environment: no call ends, neither by returning nor by raising.
C11_NeverEnds ==
    theta <= 0 => (viResult.status = "running" /\ pc \notin {"pi_returned", "pi_raised"})

\* C11, amended: for theta <= 0 no solver ever passes its stop test, so none
\* returns and policy_iteration never leaves its first policy_evaluation; a
\* call ends only by an exception raised inside a sweep, and otherwise sweep
\* follows sweep forever.
C11_NeverReturns ==
    /\ [](theta <= 0 =>
            /\ pc \notin {"vi_extract", "pi_improve", "pi_returned"}
            /\ viResult.status # "returned"
            /\ hist.round = 0)
    /\ (theta <= 0 /\ pc = "vi_sweep") ~> (SweepEnded \/ viResult.status = "raised")
    /\ (theta <= 0 /\ pc = "pe_sweep") ~> (SweepEnded \/ pc = "pi_raised")

\* C11 witness: with theta = 0 a sweep of policy_evaluation that changed
\* nothing (delta = 0, values already in place) has ended, and the stop test
\* 0 < 0 fails
C11_Witness ==
    /\ theta = 0
    /\ pc = "pe_sweep"
    /\ SweepEnded
    /\ delta = 0
    /\ \E s \in DOMAIN V : V[s] # 0

\* the largest immediate reward at s, and the first action that earns it
MaxReward(e, s) ==
    CHOOSE r \in {sim_step(e, s, actions(e, s)[k]).reward : k \in 1..Len(actions(e, s))} :
        \A k \in 1..Len(actions(e, s)) : sim_step(e, s, actions(e, s)[k]).reward <= r
FirstBest(e, s) ==
    actions(e, s)[CHOOSE k \in 1..Len(actions(e, s)) :
        /\ sim_step(e, s, actions(e, s)[k]).reward = MaxReward(e, s)
        /\ \A j \in 1..(k - 1) : sim_step(e, s, actions(e, s)[j]).reward < MaxReward(e, s)]

\* V and p are the myopic optimum
Myopic(W, p) ==
    \A s \in NonTerminal(env) : W[s] = MaxReward(env, s) /\ p[s] = FirstBest(env, s)

\* C12: with gamma = 0 and theta > 0 all three solvers terminate and are
\* myopic: policy_evaluation returns V[s] = the reward of sim_step(s, policy[s])
\* at every non-terminal s; value_iteration and policy_iteration return
\* V[s] = the largest immediate reward over actions(s) and policy[s] = the
\* first action of actions(s) that earns it.  (Environments with an action at
\* every non-terminal state; a solver that is given an infeasible instance or
\* an unusable policy ends by raising.)
C12_Myopic ==
    /\ [](gamma = 0 =>
            /\ Evaluated =>
                \A s \in NonTerminal(env) :
                    V[s] = sim_step(env, s, hist.evalOf[s]).reward
            /\ (viResult.status = "returned" /\ env.dead = {}) =>
                Myopic(viResult.V, viResult.policy)
            /\ (pc = "pi_returned" /\ env.dead = {}) => Myopic(V, policy)
            /\ (theta > 0 /\ WellFormed(env)) =>
                /\ viResult.status # "raised"
                /\ LegalPolicy(env, hist.p0) => pc # "pi_raised")
    /\ (gamma = 0 /\ theta > 0) ~> (pc \in {"idle", "pi_returned", "pi_raised"})

\* C12 witness: with gamma = 0 both value_iteration and policy_iteration have
\* returned, policy_iteration after changing the caller's policy, on an
\* instance where the myopic choice takes an item
C12_Witness ==
    /\ gamma = 0
    /\ theta > 0
    /\ viResult.status = "returned"
    /\ pc = "pi_returned"
    /\ hist.round >= 2
    /\ \E s \in NonTerminal(env) : policy[s] = take

\* the keys of a dict that are not non-terminal states
OtherKeys(p) == (DOMAIN p) \ NonTerminal(env)

\* C15: policy_iteration mutates the caller's policy mapping in place and
\* returns that same mapping (the one object `policy` of the model): on return
\* it holds the stable actions at every non-terminal state, and entries under
\* other keys are as the caller left them.
C15_InPlace ==
    /\ [](pc = "pi_returned" =>
            /\ DOMAIN policy = (DOMAIN hist.p0) \cup NonTerminal(env)
            /\ \A k \in OtherKeys(hist.p0) : policy[k] = hist.p0[k]
            /\ policy = hist.evalOf
            /\ \A s \in NonTerminal(env) :
                policy[s] = Greedy(env, gamma, V, s, actions(env, s), NegInf, None))
    /\ [][(pc \in {"pe_sweep", "pi_improve"}) =>
            (\A k \in OtherKeys(policy) :
                (k \in DOMAIN policy' /\ policy'[k] = policy[k]))]_vars
    /\ [][pc = "idle" => policy' = hist'.p0]_vars

\* C15 witness: policy_iteration returned after rewriting entries of a caller's
\* dict that also has an entry under another key
C15_Witness ==
    /\ pc = "pi_returned"
    /\ OtherKeys(policy) # {}
    /\ hist.round >= 2
    /\ \E s \in NonTerminal(env) : policy[s] # hist.p0[s]

RECURSIVE VISweepFrom(_, _, _, _, _)
VISweepFrom(e, g, W, k, d) ==
    IF k > Len(state_space(e)) THEN d
    ELSE IF is_terminal(e, state_space(e)[k]) THEN VISweepFrom(e, g, W, k + 1, d)
    ELSE LET s == state_space(e)[k]
             best_q == MaxQ(e, g, W, s, actions(e, s))
         IN VISweepFrom(e, g, [W EXCEPT ![s] = best_q], k + 1, NewDelta(d, W[s], best_q))

\* the same for one more sweep of policy_evaluation for the policy p
RECURSIVE PESweepFrom(_, _, _, _, _, _)
PESweepFrom(e, g, W, p, k, d) ==
    IF k > Len(state_space(e)) THEN d
    ELSE IF is_terminal(e, state_space(e)[k]) THEN PESweepFrom(e, g, W, p, k + 1, d)
    ELSE LET s == state_space(e)[k]
             new_v == Q(e, g, W, s, p[s])
         IN PESweepFrom(e, g, [W EXCEPT ![s] = new_v], p, k + 1, NewDelta(d, W[s], new_v))

\* C17: one further in-place sweep over a converged value function ends with
\* delta < theta: a Bellman-optimality sweep from the V value_iteration
\* returned, and a fixed-policy sweep from the V policy_evaluation returned.
C17_OneMoreSweep ==
    /\ (pc = "idle" /\ viResult.status = "returned") =>
        VISweepFrom(env, gamma, viResult.V, 1, 0) < theta
    /\ (pc = "pi_improve" /\ idx = 1) =>
        PESweepFrom(env, gamma, V, hist.evalOf, 1, 0) < theta

\* C17 witness: policy_evaluation returned a V that one more sweep would still
\* change, by less than theta
C17_Witness ==
    /\ pc = "pi_improve"
    /\ idx = 1
    /\ PESweepFrom(env, gamma, V, hist.evalOf, 1, 0) > 0
    /\ viResult.status = "returned"
    /\ VISweepFrom(env, gamma, viResult.V, 1, 0) > 0

\* the policy value_iteration returned is total and legal, and so is the
\* caller's policy when policy_iteration has returned
ReturnedPolicyLegal ==
    /\ viResult.status = "returned" => LegalPolicy(env, viResult.policy)
    /\ pc = "pi_returned" =>
        \A s \in NonTerminal(env) : s \in DOMAIN policy /\ Legal(env, s, policy[s])

\* C18: the policy value_iteration returns has exactly the non-terminal
\* states of state_space() as keys and policy[s] in actions(s) at each; after
\* policy_iteration returns, policy[s] is in actions(s) at every non-terminal
\* s.  Read under the interface invariant that actions(s) lists an action at
\* every non-terminal state, as every KnapsackEnv and InventoryEnv does.
C18_PolicyTotalAndLegal ==
    env.dead = {} => ReturnedPolicyLegal

\* C18 witness: both solvers returned, policy_iteration after rewriting the
\* caller's policy, on an instance with a state where only one action is legal
C18_Witness ==
    /\ viResult.status = "returned"
    /\ pc = "pi_returned"
    /\ hist.round >= 2
    /\ \E s \in NonTerminal(env) : policy[s] # hist.p0[s]
    /\ \E s \in NonTerminal(env) : Len(actions(env, s)) = 1

\* C21: InventoryEnv.actions((t, S)) for a non-terminal state with
\* 0 <= S <= capacity raises ValueError exactly when demand[t] > capacity, and
\* otherwise returns the contiguous range max(0, demand[t] - S) .. capacity - S;
\* an infeasible period is an error, never an empty action list.
C21_InfeasibleIffDemandExceeds ==
    (/\ env.kind = "Inventory"
     /\ call.op = "actions"
     /\ ~is_terminal(env, call.s)) =>
        LET d_t == env.demand[call.s[1] + 1]
            S == call.s[2]
            lo == IF d_t - S > 0 THEN d_t - S ELSE 0
            hi == env.capacity - S
        IN /\ call.raises = "Infeasible" <=> d_t > env.capacity
           /\ call.raises \in {"none", "Infeasible"}
           /\ call.raises = "none" =>
                /\ call.acts # <<>>
                /\ Len(call.acts) = hi - lo + 1
                /\ \A k \in 1..Len(call.acts) : call.acts[k] = lo + k - 1

\* C21 witness: actions((t, S)) raised on a later period of an instance whose
\* first period is feasible, from a stock S > 0
C21_Witness ==
    /\ env.kind = "Inventory"
    /\ call.op = "actions"
    /\ call.raises = "Infeasible"
    /\ call.s[1] >= 1
    /\ call.s[2] > 0
    /\ env.demand[1] <= env.capacity

\* every legal transition of the model used by the solvers stays inside
\* state_space(), one period further
Closed(e) ==
    \A s \in NonTerminal(e) :
        ~ActionsRaises(e, s) =>
            \A k \in DOMAIN actions(e, s) :
                LET out == sim_step(e, s, actions(e, s)[k])
                IN /\ out.raises = "none"
                   /\ out.next \in StateSet(e)
                   /\ out.next \in DOMAIN ZeroV(e)
                   /\ out.next[1] = s[1] + 1

\* what a returned call sim_step(s, a) with a in actions(s) gave is closed too
ClosedCall ==
    (/\ call.op = "sim_step"
     /\ ~is_terminal(env, call.s)
     /\ ~ActionsRaises(env, call.s)
     /\ call.a \in Range(actions(env, call.s))) =>
        /\ call.raises = "none"
        /\ call.next \in StateSet(env)
        /\ call.next[1] = call.s[1] + 1

NonNegativeData(e) ==
    /\ \A k \in DOMAIN e.weights : e.weights[k] >= 0
    /\ \A k \in DOMAIN e.demand : e.demand[k] >= 0

C28_IllegalStepChangesNothing ==
    /\ [][(/\ call'.op = "step"
           /\ self_i # None
           /\ \/ ActionsRaises(env, LiveState)
              \/ call'.a \notin Range(actions(env, LiveState)))
          => (/\ call'.raises \in {"IllegalAction", "Infeasible"}
              /\ call'.s = LiveState
              /\ UNCHANGED <<self_i, self_c, total_reward>>)]_vars
    /\ [][(/\ call'.op = "step"
           /\ self_i # None
           /\ call'.raises # "none")
          => (/\ UNCHANGED <<self_i, self_c, total_reward>>
              /\ \A b \in ActionInputs(env) : StepRaises(b)' = StepRaises(b))]_vars
    /\ []((call.op = "step" /\ is_terminal(env, call.s)) => call.raises # "none")

\* C28 witness: in an episode that has earned a reward and is not over, step()
\* has just rejected an action, and the state still has a legal action
C28_Witness ==
    /\ call.op = "step"
    /\ call.raises = "IllegalAction"
    /\ self_i # None
    /\ self_i >= 1
    /\ ~is_terminal(env, LiveState)
    /\ total_reward # 0
    /\ call.s = LiveState
    /\ \E b \in ActionInputs(env) : StepRaises(b) = "none"

\* C28, terminal case: step() has just rejected an action at the terminal state
C28_WitnessTerminal ==
    /\ call.op = "step"
    /\ call.raises = "IllegalAction"
    /\ self_i # None
    /\ is_terminal(env, LiveState)
    /\ total_reward # 0

\* the positions of actions(s) whose r + gamma * V[next_s] is the largest
BestPositions(e, g, W, s) ==
    {k \in DOMAIN actions(e, s) :
        \A j \in DOMAIN actions(e, s) :
            Q(e, g, W, s, actions(e, s)[j]) <= Q(e, g, W, s, actions(e, s)[k])}

\* the first of them: no earlier position is in the set
FirstMaximiser(e, g, W, s) ==
    actions(e, s)[CHOOSE k \in BestPositions(e, g, W, s) :
                    \A j \in BestPositions(e, g, W, s) : k <= j]

\* the entries written so far by the running greedy pass are first maximisers
GreedySoFar ==
    \A s \in Passed :
        (~is_terminal(env, s) /\ actions(env, s) # <<>>) =>
            /\ policy[s] = FirstMaximiser(env, gamma, V, s)
            /\ Cardinality(BestPositions(env, gamma, V, s)) >= 2 =>
                /\ env.kind = "Knapsack" => policy[s] = skip
                /\ env.kind = "Inventory" =>
                    \A k \in BestPositions(env, gamma, V, s) :
                        policy[s] <= actions(env, s)[k]

\* C23: in the greedy step of policy_iteration and in the extraction pass of
\* value_iteration, when several actions of actions(s) attain the same maximal
\* r + gamma * V[next_s], the action written to policy[s] is the first of them
\* in the order of actions(s): "skip" in KnapsackEnv, the smallest order
\* quantity in InventoryEnv.
C23_FirstMaximiser == (pc \in {"pi_improve", "vi_extract"}) => GreedySoFar

\* C23 witness: each greedy pass has just resolved a tie (between "skip" and
\* "take", between ordering now and ordering later)
C23_WitnessExtraction ==
    /\ pc = "vi_extract"
    /\ idx >= 2
    /\ ~is_terminal(env, state_space(env)[idx - 1])
    /\ Cardinality(BestPositions(env, gamma, V, state_space(env)[idx - 1])) >= 2
    /\ env.kind = "Inventory"
    /\ gamma = 2

C23_Witness ==
    /\ pc = "pi_improve"
    /\ idx >= 2
    /\ ~is_terminal(env, state_space(env)[idx - 1])
    /\ Cardinality(BestPositions(env, gamma, V, state_space(env)[idx - 1])) >= 2
    /\ env.kind = "Knapsack"
    /\ hist.p0[state_space(env)[idx - 1]] = take
    /\ policy[state_space(env)[idx - 1]] = skip

\* the policy being evaluated has a legal action at every non-terminal state
TotalLegal(e, p) ==
    \A s \in NonTerminal(e) : s \in DOMAIN p /\ Legal(e, s, p[s])

\* C24: on KnapsackEnv, and on InventoryEnv with every demand[t] <= capacity,
\* for every gamma in [0, 1] and every theta > 0, the sweep loop of
\* value_iteration, and of policy_evaluation under any total policy of legal
\* actions, eventually reaches a sweep with delta < theta and returns; no sweep
\* raises on the way.
C24_SweepsEnd ==
    /\ (pc = "vi_sweep" /\ theta > 0 /\ WellFormed(env))
          ~> (pc = "vi_extract" /\ delta < theta)
    /\ (pc = "pe_sweep" /\ theta > 0 /\ WellFormed(env) /\ TotalLegal(env, policy))
          ~> (pc = "pi_improve" /\ delta < theta /\ hist.evalOf = policy)
    /\ []((pc = "vi_sweep" /\ theta > 0 /\ WellFormed(env)) => err = "none")
    /\ []((pc = "pe_sweep" /\ theta > 0 /\ WellFormed(env) /\ TotalLegal(env, policy))
            => err = "none")

\* C24 witness: without discount and with the smallest threshold, the second
\* policy_evaluation of a run of policy_iteration has ended a sweep that
\* changed nothing, its values being in place, and passes the stop test
C24_Witness ==
    /\ pc = "pe_sweep"
    /\ SweepEnded
    /\ gamma = 2
    /\ theta = 1
    /\ delta < theta
    /\ hist.round >= 1
    /\ WellFormed(env)
    /\ TotalLegal(env, policy)
    /\ \E s \in DOMAIN V : V[s] # 0

\* a run of policy_iteration on an environment that honours the interface,
\* from a total policy of legal actions
ProperRun ==
    /\ pc \in {"pe_sweep", "pi_improve"}
    /\ theta > 0
    /\ WellFormed(env)
    /\ LegalPolicy(env, hist.p0)

JustEvaluated ==
    /\ pc = "pi_improve"
    /\ idx = 1
    /\ theta > 0
    /\ WellFormed(env)
    /\ TotalLegal(env, hist.evalOf)

\* C22 as stated: for a fixed environment, policy, gamma and theta, any two
\* enumeration orders of the states give the same V: identical with gamma = 1
\* and theta < 1 (rewards are integers), within theta otherwise.
C22_AnyTheta ==
    JustEvaluated =>
        \A ord \in Orders(env) :
            LET other == policy_evaluation(env, hist.evalOf, gamma, theta, ord).V
            IN /\ \A s \in StateSet(env) : Abs(V[s] - other[s]) < theta
               /\ (gamma = 2 /\ theta < Scale) => other = V

\* C22 amended: any two enumeration orders whose evaluations stop on a sweep
\* that changes no value (delta = 0; every evaluation when theta is no larger
\* than the resolution of the values) return the identical V, after numbers
\* of sweeps that may differ.  What the sweep over state_space() as the
\* operator computes it is what the step-by-step run returned.
C22_ExactSweeps ==
    JustEvaluated =>
        /\ policy_evaluation(env, hist.evalOf, gamma, theta, state_space(env)).V = V
        /\ policy_evaluation(env, hist.evalOf, gamma, theta, state_space(env)).delta = delta
        /\ \A ord \in Orders(env) :
            LET other == policy_evaluation(env, hist.evalOf, gamma, theta, ord)
            IN /\ (delta = 0 /\ other.delta = 0) => other.V = V
               /\ theta = 1 => (delta = 0 /\ other.delta = 0)

\* C22 witness: the evaluation in state_space() order took more sweeps than
\* the one in the reverse order, and both returned the same non-zero V
C22_Witness ==
    /\ JustEvaluated
    /\ delta = 0
    /\ \E s \in StateSet(env) : V[s] # 0
    /\ LET there == policy_evaluation(env, hist.evalOf, gamma, theta, state_space(env))
           back == policy_evaluation(env, hist.evalOf, gamma, theta,
                                     Reverse(state_space(env)))
       IN /\ back.V = V
          /\ back.delta = 0
          /\ back.sweeps < there.sweeps

\* the state reset() returns
InitialState ==
    IF env.kind = "Inventory" THEN <<0, start_inventory>> ELSE <<0, env.capacity>>

\* the episode of the returned policy has just ended
EpisodeOver ==
    /\ Returned
    /\ report.pc = "done"
    /\ report.policy = ReturnedPolicy
    /\ WellFormed(env)

C27_WitnessValueIteration ==
    /\ EpisodeOver
    /\ pc = "idle"
    /\ env.kind = "Inventory"
    /\ gamma = 2
    /\ ReturnedDelta = 0
    /\ Horizon(env) >= 2
    /\ total_reward # 0
    /\ total_reward = viResult.V[InitialState]

\* C29: heuristica_eoq terminates for every finite period list M, demand d,
\* initial inventory I_0 and lot size EOQ: every block it forms contains at
\* least one period (k >= 1), so idx strictly increases until the horizon is
\* exhausted, and each period of M belongs to exactly one block.
C29_BlocksAdvance ==
    /\ [](lot.pc = "serve" => lot.k >= 1)
    /\ [][(lot.pc = "serve" /\ lot'.pc = "outer") => lot'.idx > lot.idx]_vars
    /\ [](lot.pc = "returned" => \A t \in 1..lot.n : lot.blocks[t] = 1)
    /\ <>(lot.pc = "returned")

\* the part of C29 the code does satisfy: with EOQ > 0 every block has k >= 1,
\* the call returns, each period is in exactly one block and no period ends
\* with a shortage
C29_PositiveLotReturns ==
    /\ (lot.pc # "off" /\ lot.EOQ > 0) ~> (lot.pc = "returned")
    /\ []((lot.pc = "serve" /\ lot.EOQ > 0) => lot.k >= 1)
    /\ []((lot.pc = "returned" /\ lot.EOQ > 0) =>
            \A t \in 1..lot.n : lot.blocks[t] = 1 /\ lot.inventario_fin[t] >= 0)

\* every node of N has exactly one successor and exactly one predecessor
OneInOneOut(su, N) ==
    /\ \A i \in N : su[i] \in N
    /\ \A j \in N : Cardinality({i \in N : su[i] = j}) = 1

\* the node reached from x after m arcs
RECURSIVE Follow(_, _, _)
Follow(su, x, m) == IF m = 0 THEN x ELSE Follow(su, su[x], m - 1)

\* succ is one cycle through all the nodes
Hamiltonian(su, N) ==
    /\ OneInOneOut(su, N)
    /\ \A x \in N, j \in N : \E m \in 0..(Cardinality(N) - 1) : Follow(su, x, m) = j

\* the returned lists are cycles of succ
CyclesOf(su, lists) ==
    \A c \in DOMAIN lists :
        /\ lists[c] # <<>>
        /\ \A p \in 1..(Len(lists[c]) - 1) : su[lists[c][p]] = lists[c][p + 1]
        /\ su[lists[c][Len(lists[c])]] = lists[c][1]

\* each node is in exactly one list, exactly once
Partition(N, lists) ==
    \A x \in N :
        Cardinality({<<c, p>> \in (DOMAIN lists) \X (1..Cardinality(N)) :
                        p <= Len(lists[c]) /\ lists[c][p] = x}) = 1

\* C30: when every node of N has exactly one successor and exactly one
\* predecessor in succ, identificar_subtours(succ, N) terminates and returns
\* exactly the cycles of succ: the lists partition N, consecutive nodes of a
\* list are linked by succ and the successor of the last node is the first;
\* one list of length len(N) is returned iff succ is one Hamiltonian cycle.
C30_CyclesPartition ==
    /\ (sub.pc # "off" /\ OneInOneOut(sub.succ, sub.N)) ~> (sub.pc = "returned")
    /\ []((sub.pc = "returned" /\ OneInOneOut(sub.succ, sub.N)) =>
            /\ CyclesOf(sub.succ, sub.subtours)
            /\ Partition(sub.N, sub.subtours)
            /\ \A c \in DOMAIN sub.subtours : Len(sub.subtours[c]) <= Cardinality(sub.N)
            /\ (Len(sub.subtours) = 1 /\ Len(sub.subtours[1]) = Cardinality(sub.N))
                  <=> Hamiltonian(sub.succ, sub.N))

\* C30 witness: four nodes paired in two cycles of two, returned as two lists
C30_Witness ==
    /\ sub.pc = "returned"
    /\ OneInOneOut(sub.succ, sub.N)
    /\ Cardinality(sub.N) = 4
    /\ Len(sub.subtours) = 2
    /\ Len(sub.subtours[1]) = 2
    /\ Len(sub.subtours[2]) = 2
    /\ ~Hamiltonian(sub.succ, sub.N)

====
